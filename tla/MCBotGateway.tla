---------------------------- MODULE MCBotGateway ----------------------------
EXTENDS BotGateway, TLC
=============================================================================

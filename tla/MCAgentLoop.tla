---- MODULE MCAgentLoop ----
EXTENDS AgentLoop

\* Reads that run together before a writer, and the check the writer owes.
ReadsAndWrites == { <<"read", "read", "edit">>, <<"check">> }

\* A check and the step that cites it, in one reply or in two.
Verified == { <<"check", "signoff">>, <<"signoff">>, <<"check">> }
====

--------------------------- MODULE MCSessionSave ---------------------------
EXTENDS SessionSave, TLC

CONSTANTS a, b

Scenario(who, messages, rewinds, cancels, exits, ticks, fails) ==
  [who |-> who, messages |-> messages, rewinds |-> rewinds, cancels |-> cancels,
   exits |-> exits, ticks |-> ticks, fails |-> fails]

\* Two runtimes on one transcript, without exits or autosaves; and one runtime
\* that may exit and be started again, with mid-turn autosaves.
SharedOrAlone ==
  {Scenario({a, b}, 3, 1, 0, 0, 0, TRUE), Scenario({a, b}, 2, 0, 1, 0, 0, TRUE)}
    \cup {Scenario({c}, 4, 1, 1, 1, 0, TRUE) : c \in {a, b}}
    \cup {Scenario({c}, 3, 0, 1, 1, 1, FALSE) : c \in {a, b}}

\* The constraint NotDivergent is the hypothesis of SavedMessageSurvives.
ControllerSymmetry == Permutations({a, b})
=============================================================================

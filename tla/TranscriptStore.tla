-------------------------- MODULE TranscriptStore --------------------------
(***************************************************************************)
(* What the saves of transcripts promise, without locks, revisions or      *)
(* sidecars: a store of texts in which a client may extend the text of a   *)
(* path, may replace it only while it is one the client has seen there,    *)
(* may put a text on a path that has none, and may put back on a recovery  *)
(* path the text it is named by.                                           *)
(***************************************************************************)
EXTENDS SequencesExt

CONSTANT Clients

VARIABLES text,  \* path -> the text on it, for the paths in use
          seen   \* client -> pairs of a path and a text it knows to have been there

vars == <<text, seen>>

Init == seen = [c \in Clients |-> {}] /\ DOMAIN text # {}

\* A client looks at some paths and may forget what it knew.
Observe(c) ==
  /\ \A x \in seen'[c] \ seen[c] : x[1] \in DOMAIN text /\ text[x[1]] = x[2]
  /\ seen' = [seen EXCEPT ![c] = seen'[c]]
  /\ UNCHANGED text

Put(c, p) ==
  /\ text' = [q \in DOMAIN text \cup {p} |-> IF q = p THEN text'[p] ELSE text[q]]
  /\ UNCHANGED seen

Extend(c, p) == p \in DOMAIN text /\ IsPrefix(text[p], text'[p]) /\ Put(c, p)
Rewrite(c, p) == p \in DOMAIN text /\ <<p, text[p]>> \in seen[c] /\ Put(c, p)
Create(c, p) == p \notin DOMAIN text /\ Put(c, p)

\* A recovery path may get the text again that it is named by, whatever is there now.
Reuse(c, p) == p \in DOMAIN text /\ p # <<>> /\ text'[p] = Last(p) /\ Put(c, p)

Next == \E c \in Clients : \/ Observe(c)
                           \/ \E p \in DOMAIN text' : Extend(c, p) \/ Rewrite(c, p) \/ Create(c, p) \/ Reuse(c, p)

Spec == Init /\ [][Next]_vars
=============================================================================

------------------------------ MODULE Transcript ------------------------------
(***************************************************************************)
(* The tool-call contract of a transcript (internal/provider/provider.go): *)
(* an assistant message that calls tools is followed by one tool message   *)
(* per call, in call order, and a tool message follows such a call.  The   *)
(* repairs below restore it, one when a request is sent and one when a     *)
(* session is loaded.                                                      *)
(*                                                                         *)
(* A message has a role, the ids of the tools it calls, the id it answers  *)
(* and an identity n; an id may be empty or repeat.  The other fields are  *)
(* the compaction's: a size, whether the keep policy keeps the message,    *)
(* what is left of a tool result, what a digest stands for.  Names and     *)
(* arguments of calls are left out.                                        *)
(***************************************************************************)
EXTENDS Naturals, Sequences, FiniteSets
LOCAL INSTANCE SequencesExt
LOCAL INSTANCE FiniteSetsExt

NoId == ""
Message(role, n) == [role |-> role, n |-> n, calls |-> <<>>, id |-> NoId, size |-> 1,
                     keep |-> FALSE, form |-> "full", covers |-> {}]
Placeholder(id) == [Message("tool", 0) EXCEPT !.id = id]

Calls(m) == m.role = "assistant" /\ m.calls # <<>>
IsTool(m) == m.role = "tool"

\* The tool messages that follow message i without a gap.
After(log, i) ==
    LET end == Min({j \in (i + 1) .. (Len(log) + 1) :
                      j = Len(log) + 1 \/ ~IsTool(log[j])})
    IN  SubSeq(log, i + 1, end - 1)

\* Tool message j is in the run that follows a message with calls.
Follows(log, j) ==
    \E i \in 1 .. (j - 1) :
        Calls(log[i]) /\ \A k \in (i + 1) .. j : IsTool(log[k])

\* toolTurnWellFormed.
Answered(calls, results) ==
    /\ Len(calls) = Len(results)
    /\ \A k \in 1 .. Len(calls) : results[k].id = calls[k]

\* idDistinct.
Distinct(calls) ==
    \A k \in 1 .. Len(calls) :
        calls[k] # NoId /\ \A l \in 1 .. (k - 1) : calls[k] # calls[l]

\* pairToolResults: by id when the ids tell the calls apart (the last result
\* of an id counts), by position otherwise.
PairResults(calls, results) ==
    IF Distinct(calls)
    THEN [k \in 1 .. Len(calls) |->
            LET own == {j \in 1 .. Len(results) : results[j].id = calls[k]}
            IN  IF own # {} THEN results[Max(own)] ELSE Placeholder(calls[k])]
    ELSE [k \in 1 .. Len(calls) |->
            IF k <= Len(results) THEN [results[k] EXCEPT !.id = calls[k]]
                                 ELSE Placeholder(calls[k])]

\* sessionToolResults: what is stored stays, the missing answers are appended.
SessionResults(calls, results) ==
    LET missing == IF Distinct(calls)
                   THEN SelectSeq(calls, LAMBDA c : \A j \in 1 .. Len(results) :
                                                      results[j].id # c)
                   ELSE SubSeq(calls, Len(results) + 1, Len(calls))
    IN  results \o [k \in 1 .. Len(missing) |-> Placeholder(missing[k])]

\* normalizeMessages, for the wire (drop) or for a stored session (~drop).
Normalized(log, drop) ==
    FlattenSeq([i \in 1 .. Len(log) |->
        CASE Calls(log[i]) ->
               <<log[i]>> \o (IF drop THEN PairResults(log[i].calls, After(log, i))
                                      ELSE SessionResults(log[i].calls, After(log, i)))
          [] IsTool(log[i]) ->
               IF ~drop /\ ~Follows(log, i) THEN <<log[i]>> ELSE <<>>
          [] OTHER -> <<log[i]>>])

Wire(log)   == Normalized(log, TRUE)
Stored(log) == Normalized(log, FALSE)
=============================================================================

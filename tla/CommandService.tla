--------------------------- MODULE CommandService ---------------------------
(***************************************************************************)
(* What the command RPC of serial_bridge.py promises its callers, without  *)
(* port, lock, captures or threads: a command that was asked for runs to   *)
(* its end at most once; an "ok" answer is given only to a command that    *)
(* has run; any other answer says nothing, and the command may still run   *)
(* after it.  No command is answered twice.                                *)
(***************************************************************************)
EXTENDS Naturals, Sequences

CONSTANT Ids    \* the requests

VARIABLES asked,   \* requests made so far
          done,    \* requests that ran to their end, in order
          answer   \* answer[r]: "none", "ok" or "failed"

Init == asked = {} /\ done = <<>> /\ answer = [r \in Ids |-> "none"]

Ask(r) ==
  /\ r \notin asked
  /\ asked' = asked \cup {r}
  /\ UNCHANGED <<done, answer>>

Run(r) ==
  /\ r \in asked /\ \A i \in 1..Len(done) : done[i] # r
  /\ done' = Append(done, r)
  /\ UNCHANGED <<asked, answer>>

Answer(r, a) ==
  /\ r \in asked /\ answer[r] = "none"
  /\ a = "ok" => \E i \in 1..Len(done) : done[i] = r
  /\ answer' = [answer EXCEPT ![r] = a]
  /\ UNCHANGED <<asked, done>>

Next == \E r \in Ids : \/ Ask(r) \/ Run(r)
                       \/ \E a \in {"ok", "failed"} : Answer(r, a)

Spec == Init /\ [][Next]_<<asked, done, answer>>
=============================================================================

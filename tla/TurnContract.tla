---------------------------- MODULE TurnContract ----------------------------
(***************************************************************************)
(* What the chat promises its user, whatever happens underneath: one turn  *)
(* at a time, and an answer made of that turn's own frames or of nothing.  *)
(***************************************************************************)
EXTENDS Naturals

VARIABLES
  asked,   \* turns asked so far
  phase,   \* "ready" for input, "waiting" for the answer, or "closed"
  answer   \* the turns whose frames the answer on the screen is made of

vars == <<asked, phase, answer>>

Init == asked = 0 /\ phase = "ready" /\ answer = {}

Ask == /\ phase = "ready" /\ phase' = "waiting"
       /\ asked' = asked + 1 /\ answer' = {}

Answer == /\ phase = "waiting" /\ phase' = "ready"
          /\ answer' \in {{}, {asked}} /\ UNCHANGED asked

Close == /\ phase # "closed" /\ phase' = "closed"
         /\ answer' = {} /\ UNCHANGED asked

Next == Ask \/ Answer \/ Close

Spec == Init /\ [][Next]_vars

=============================================================================

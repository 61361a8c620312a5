----------------------------- MODULE SessionLife -----------------------------
(***************************************************************************)
(* What the session layer promises its callers, without loops, timers and  *)
(* worker threads: a session is opened, killed and destroyed, in this      *)
(* order and once; a reference obtained before it was killed holds off its *)
(* destruction.                                                            *)
(***************************************************************************)
CONSTANTS Session, Sender, NoSession

VARIABLES
    life,   \* none, alive, dying, gone
    held    \* sender -> the session it holds since before it was killed

lifeVars == <<life, held>>

LifeInit == /\ life = [s \in Session |-> "none"]
            /\ held = [x \in Sender |-> NoSession]

\* A session whose connection fails on arrival is born dying.
Open(s, l) == /\ life[s] = "none"
              /\ life' = [life EXCEPT ![s] = l]
              /\ UNCHANGED held

\* Stopping the instance kills several sessions at once.
Kill(S) == /\ \A s \in S : life[s] = "alive"
           /\ life' = [s \in Session |-> IF s \in S THEN "dying" ELSE life[s]]
           /\ UNCHANGED held

Hold(x, s) == /\ held[x] = NoSession
              /\ life[s] = "alive"
              /\ held' = [held EXCEPT ![x] = s]
              /\ UNCHANGED life

Release(x) == /\ held' = [held EXCEPT ![x] = NoSession]
              /\ UNCHANGED life

Destroy(s) == /\ life[s] = "dying"
              /\ \A x \in Sender : held[x] # s
              /\ life' = [life EXCEPT ![s] = "gone"]
              /\ UNCHANGED held

LifeNext == \/ \E s \in Session : \/ \E l \in {"alive", "dying"} : Open(s, l)
                                  \/ Destroy(s)
            \/ \E S \in SUBSET Session : Kill(S)
            \/ \E x \in Sender : Release(x) \/ \E s \in Session : Hold(x, s)

LifeSpec == LifeInit /\ [][LifeNext]_lifeVars
=============================================================================

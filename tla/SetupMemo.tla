------------------------------ MODULE SetupMemo ------------------------------
(***************************************************************************)
(* What the cache of IPA generator setups promises its callers: one setup  *)
(* per key, made when the key is first asked for and handed to everybody   *)
(* who asks for it afterwards.  A call either answers, in one step, or     *)
(* fails because the key's vector length does not fit a machine word.      *)
(* IpaSetupCache shows how the code keeps this promise with a lock it does *)
(* not hold while it computes.                                             *)
(***************************************************************************)
EXTENDS Naturals

CONSTANTS Threads,   \* the callers
          Keys,      \* what may be asked for
          Usable,    \* the keys whose length fits
          NoKey,     \* of a caller that is not asking
          NoSetup    \* of a key nobody has been answered for

VARIABLES asked,     \* per caller, the key it waits for
          memo,      \* per key, the one setup handed out
          answer     \* per caller, what its last call returned

vars == <<asked, memo, answer>>

Init ==
  /\ asked = [t \in Threads |-> NoKey]
  /\ memo = [k \in Keys |-> NoSetup]
  /\ answer = [t \in Threads |-> NoSetup]

Ask(t, k) ==
  /\ asked[t] = NoKey
  /\ asked' = [asked EXCEPT ![t] = k]
  /\ answer' = [answer EXCEPT ![t] = NoSetup]
  /\ UNCHANGED memo

\* The key is new: a setup nobody else holds becomes its setup.
Make(k) ==
  /\ memo[k] = NoSetup
  /\ memo'[k] # NoSetup
  /\ memo'[k].derived = k
  /\ \A other \in Keys : memo[other] # NoSetup => memo[other].arc # memo'[k].arc
  /\ memo' = [memo EXCEPT ![k] = memo'[k]]

Reuse(k) == memo[k] # NoSetup /\ UNCHANGED memo

Answer(t) ==
  /\ asked[t] \in Keys
  /\ Make(asked[t]) \/ Reuse(asked[t])
  /\ answer' = [answer EXCEPT ![t] = memo'[asked[t]]]
  /\ asked' = [asked EXCEPT ![t] = NoKey]

Fail(t) ==
  /\ asked[t] \in Keys \ Usable
  /\ asked' = [asked EXCEPT ![t] = NoKey]
  /\ UNCHANGED <<memo, answer>>

Next ==
  \E t \in Threads :
    \/ \E k \in Keys : Ask(t, k)
    \/ Answer(t)
    \/ Fail(t)

Spec == Init /\ [][Next]_vars

=============================================================================

-------------------------- MODULE IntegrationProofs --------------------------
(***************************************************************************)
(* Theorems about the integrations and the registry they feed, for any     *)
(* threads, lights, intervals, bridges, pairings, daemons, restarts,       *)
(* adapters, devices, entities, names and number of areas: the slots of    *)
(* the rate gate are spaced and the value staged last keeps its place; a   *)
(* bridge that is followed comes back; the Matter sidecar keeps what it    *)
(* told; the events explain the registry; the lights of a bridge that is   *)
(* waited for are not available; when nothing is under way over MQTT, the  *)
(* registry, the routes and the states are what was announced and said.    *)
(***************************************************************************)
EXTENDS HueDispatch, HuePairing, MatterSidecar, HueSupervisor, MqttIngest,
    FiniteSetTheorems, TLAPS

-----------------------------------------------------------------------------
(* The delays of HueSupervisor: arithmetic alone. *)

\* A power of two counts the subsets of an interval.
LEMMA PowerOfTwo ==
  ASSUME NEW k \in Nat
  PROVE  2^k \in Nat /\ 2^k >= 1
<1>1. IsFiniteSet(1..k) /\ Cardinality(1..k) = k
  BY FS_Interval
<1>2. IsFiniteSet(SUBSET (1..k)) /\ Cardinality(SUBSET (1..k)) = 2^k
  BY <1>1, FS_SUBSET
<1>3. Cardinality(SUBSET (1..k)) \in Nat /\ Cardinality(SUBSET (1..k)) # 0
  BY <1>2, FS_CardinalityType, FS_EmptySet
<1>. QED  BY <1>2, <1>3

LEMMA DelayLimits == Initial \in Nat /\ Maximum \in Nat /\ Initial <= Maximum
BY SMT DEF Initial, Maximum

\* Whatever the number of failures and the entropy.
LEMMA DelayBounds ==
  ASSUME NEW n \in Nat \ {0}
  PROVE  Delays(n) \subseteq Initial..Maximum
<1>1. AtMost(n - 1, 63) \in Nat
  BY DEF AtMost
<1>2. PICK power \in Nat : power = 2^AtMost(n - 1, 63) /\ power >= 1
  BY <1>1, PowerOfTwo
<1>3. PICK grown \in Int : grown = Initial * power /\ grown >= Initial
  BY <1>2, DelayLimits
<1>4. Base(n) = AtMost(grown, Maximum)
  BY <1>2, <1>3, Zenon DEF Base
<1>5. AtMost(grown, Maximum) \in Initial..Maximum
  BY <1>3, DelayLimits DEF AtMost
<1>6. PICK base \in Initial..Maximum : base = Base(n)
  BY <1>4, <1>5
<1>7. PICK rest \in Nat : rest = base \div 5
  BY <1>6, DelayLimits
<1>8. base + AtMost(rest, Maximum - base) \in Initial..Maximum
  BY <1>6, <1>7, DelayLimits DEF AtMost
<1>. QED  BY <1>6, <1>7, <1>8 DEF Delays

-----------------------------------------------------------------------------
(* HueDispatch. *)

USE HuePolicyAssumption

\* Types.

Active(t) == calls[t].at \in CallPlace

LEMMA ActiveCall ==
  ASSUME HueTypeOK, NEW t \in Thread, Active(t)
  PROVE  /\ calls[t] \in [at : CallPlace, key : Key, revision : HueRevision, until : Nat]
         /\ calls[t].key \in Key /\ calls[t].revision \in HueRevision /\ calls[t].until \in Nat
BY DEF HueTypeOK, Active, Resting, CallPlace

\* A call under way that goes to another place keeps its type.
LEMMA MovedCall ==
  ASSUME HueTypeOK, NEW t \in Thread, Active(t), NEW place \in CallPlace, NEW until \in Nat
  PROVE  /\ [calls EXCEPT ![t].at = place, ![t].until = until]
              \in [Thread -> {Resting} \cup
                     [at : CallPlace, key : Key, revision : HueRevision, until : Nat]]
         /\ [calls EXCEPT ![t].at = place] = [calls EXCEPT ![t].at = place,
                                                          ![t].until = calls[t].until]
<1>1. calls[t] \in [at : CallPlace, key : Key, revision : HueRevision, until : Nat]
  BY ActiveCall
<1>2. [calls[t] EXCEPT !.at = place, !.until = until]
        \in [at : CallPlace, key : Key, revision : HueRevision, until : Nat]
  BY <1>1
<1>3. [calls[t] EXCEPT !.at = place] = [calls[t] EXCEPT !.at = place, !.until = calls[t].until]
  BY <1>1
<1>. QED  BY <1>2, <1>3 DEF HueTypeOK

LEMMA TypeInit == HueInit => HueTypeOK
BY DEF HueInit, HueTypeOK, Resting

LEMMA TypeStep == HueTypeOK /\ [HueNext]_hueVars => HueTypeOK'
<1> SUFFICES ASSUME HueTypeOK, [HueNext]_hueVars PROVE HueTypeOK'
  OBVIOUS
<1>. USE DEF HueTypeOK
<1>1. ASSUME NEW k \in Key, RegisterLight(k) PROVE HueTypeOK'
  BY <1>1 DEF RegisterLight
<1>2. ASSUME NEW t \in Thread, NEW k \in Key, TakeRevision(t, k) PROVE HueTypeOK'
  <2>1. hueRevision + 1 \in HueRevision
    BY <1>2 DEF TakeRevision, HueRevision
  <2>. QED  BY <1>2, <2>1 DEF TakeRevision, CallOf, CallPlace, HueRevision
<1>3. ASSUME NEW t \in Thread, StagePending(t) PROVE HueTypeOK'
  <2>1. Active(t)
    BY <1>3 DEF StagePending, Active, CallPlace
  <2>2. calls[t].revision \in 0..MaxCalls
    BY <2>1, ActiveCall DEF HueRevision
  <2>3. hueClock + Coalesce \in Nat /\ "coalescing" \in CallPlace
    BY DEF CallPlace
  <2>. QED  BY <1>3, <2>1, <2>2, <2>3, MovedCall DEF StagePending
<1>4. ASSUME NEW t \in Thread, Reserve(t) PROVE HueTypeOK'
  <2>1. Active(t)
    BY <1>4 DEF Reserve, Active, CallPlace
  <2>2. Scheduled \in Nat /\ "sleeping" \in CallPlace
    BY DEF Scheduled, CallPlace
  <2>3. calls' \in [Thread -> {Resting} \cup
                      [at : CallPlace, key : Key, revision : HueRevision, until : Nat]]
    BY <1>4, <2>1, <2>2, MovedCall DEF Reserve
  <2>4. slots' \subseteq [revision : HueRevision, at : Nat, asked : Nat]
    BY <1>4, <2>1, <2>2, ActiveCall DEF Reserve
  <2>. QED  BY <1>4, <2>2, <2>3, <2>4 DEF Reserve, SlotAfter
<1>5. ASSUME NEW t \in Thread, PassWindow(t) \/ Send(t) PROVE HueTypeOK'
  <2>1. Active(t)
    BY <1>5 DEF PassWindow, Send, Active, CallPlace
  <2>2. PICK place \in CallPlace : calls' = [calls EXCEPT ![t].at = place]
    BY <1>5 DEF PassWindow, Send, CallPlace
  <2>3. calls' = [calls EXCEPT ![t].at = place, ![t].until = calls[t].until]
    BY <2>1, <2>2, MovedCall
  <2>4. calls' \in [Thread -> {Resting} \cup
                      [at : CallPlace, key : Key, revision : HueRevision, until : Nat]]
    BY <2>1, <2>3, MovedCall, ActiveCall
  <2>. QED  BY <1>5, <2>4 DEF PassWindow, Send
<1>6. ASSUME NEW t \in Thread,
             SupersededInWindow(t) \/ DeadlineExceeded(t) \/ SupersededInQueue(t) \/ Answered(t)
      PROVE  HueTypeOK'
  BY <1>6 DEF SupersededInWindow, DeadlineExceeded, SupersededInQueue, Answered, RemoveIfCurrent
<1>7. CASE HueTick
  BY <1>7 DEF HueTick
<1>8. CASE UNCHANGED hueVars
  BY <1>8 DEF hueVars
<1>. QED  BY <1>1, <1>2, <1>3, <1>4, <1>5, <1>6, <1>7, <1>8 DEF HueNext

-----------------------------------------------------------------------------
(* The rate gate. *)

\* The next slot is an interval after every slot reserved.
GateInv ==
    /\ \A x \in slots : x.at + Interval <= nextLightAt
    /\ SlotsAreSpaced

LEMMA GateStep == HueTypeOK /\ GateInv /\ [HueNext]_hueVars => GateInv'
<1> SUFFICES ASSUME HueTypeOK, GateInv, [HueNext]_hueVars PROVE GateInv'
  OBVIOUS
<1>1. ASSUME NEW t \in Thread, Reserve(t) PROVE GateInv'
  <2> DEFINE new == [revision |-> calls[t].revision, at |-> Scheduled, asked |-> hueClock]
  <2>1. slots' = slots \cup {new} /\ nextLightAt' = Scheduled + Interval
    BY <1>1 DEF Reserve, SlotAfter
  <2>2. /\ hueClock \in Nat /\ nextLightAt \in Nat /\ Interval \in Nat /\ Deadline \in Nat
        /\ Scheduled \in Nat /\ nextLightAt <= Scheduled /\ hueClock <= Scheduled
        /\ Scheduled <= hueClock + Deadline
    BY <1>1 DEF HueTypeOK, Scheduled, Reserve
  <2>3. \A x \in slots : x.at \in Nat /\ x.asked \in Nat
    BY DEF HueTypeOK
  <2>4. new.at = Scheduled /\ new.asked = hueClock
    OBVIOUS
  <2>5. \A x \in slots : x.at + Interval <= new.at
    BY <2>2, <2>3, <2>4 DEF GateInv
  <2>6. \A x \in slots' : x.at + Interval <= nextLightAt'
    BY <2>1, <2>2, <2>3, <2>4, <2>5
  <2>7. \A x, y \in slots' : x # y => x.at + Interval <= y.at \/ y.at + Interval <= x.at
    BY <2>1, <2>5 DEF GateInv, SlotsAreSpaced
  <2>8. \A x \in slots' : x.asked <= x.at /\ x.at <= x.asked + Deadline
    BY <2>1, <2>2, <2>4 DEF GateInv, SlotsAreSpaced
  <2>. QED  BY <2>6, <2>7, <2>8 DEF GateInv, SlotsAreSpaced
<1>2. CASE UNCHANGED <<slots, nextLightAt>>
  BY <1>2 DEF GateInv, SlotsAreSpaced
<1>3. [HueNext]_hueVars => UNCHANGED <<slots, nextLightAt>> \/ \E t \in Thread : Reserve(t)
  BY DEF HueNext, hueVars, RegisterLight, TakeRevision, StagePending, SupersededInWindow,
         PassWindow, DeadlineExceeded, SupersededInQueue, Send, Answered, HueTick
<1>. QED  BY <1>1, <1>2, <1>3

-----------------------------------------------------------------------------
(* The table of pending values. *)

\* Every call under way has a revision of its own, already given out.
RevisionsDiffer ==
    \A t \in Thread : Active(t) =>
        /\ calls[t].revision <= hueRevision
        /\ \A u \in Thread : Active(u) /\ calls[u].revision = calls[t].revision => u = t

PlaceInv == RevisionsDiffer /\ LastStagedWins

\* A call that only moves on, keeping key and revision, disturbs nothing.
LEMMA MovesOn ==
  ASSUME HueTypeOK, PlaceInv, NEW t \in Thread, Pending(t),
         NEW place \in CallPlace \ {"staging"}, NEW until \in Nat,
         calls' = [calls EXCEPT ![t].at = place, ![t].until = until],
         UNCHANGED <<hueRevision, staged, lastStaged>>
  PROVE  PlaceInv'
<1>1. Active(t)
  BY DEF Pending, Active
<1>2. \A u \in Thread : /\ Active(u)' <=> Active(u)
                        /\ Pending(u)' <=> Pending(u)
                        /\ Active(u) => calls'[u].key = calls[u].key
                                        /\ calls'[u].revision = calls[u].revision
  BY <1>1, ActiveCall DEF HueTypeOK, Active, Pending
<1>3. RevisionsDiffer'
  BY <1>2 DEF PlaceInv, RevisionsDiffer
<1>4. \A u \in Thread : Pending(u) => Active(u)
  BY DEF Pending, Active
<1>5. ASSUME NEW u \in Thread, Pending(u)', lastStaged'[calls'[u].key] = calls'[u].revision
      PROVE  Current(u)'
  BY <1>2, <1>4, <1>5 DEF PlaceInv, LastStagedWins, Current
<1>6. ASSUME NEW k \in Key, staged'[k] # 0
      PROVE  \E u \in Thread : Pending(u)' /\ calls'[u].key = k /\ calls'[u].revision = staged'[k]
  <2>1. PICK u \in Thread : Pending(u) /\ calls[u].key = k /\ calls[u].revision = staged[k]
    BY <1>6 DEF PlaceInv, LastStagedWins
  <2>. QED  BY <1>2, <1>4, <2>1
<1>. QED  BY <1>3, <1>5, <1>6 DEF PlaceInv, LastStagedWins

\* A call that ends takes its own value away, and no other.
LEMMA Ends ==
  ASSUME HueTypeOK, PlaceInv, NEW t \in Thread, Pending(t),
         RemoveIfCurrent(t) \/ (UNCHANGED staged /\ ~Current(t)),
         calls' = [calls EXCEPT ![t] = Resting], UNCHANGED <<hueRevision, lastStaged>>
  PROVE  PlaceInv'
<1>1. Active(t) /\ calls[t].key \in Key /\ calls[t].revision \in HueRevision
  BY ActiveCall DEF Pending, Active
<1>2. \A u \in Thread : /\ u # t => calls'[u] = calls[u]
                        /\ Active(u)' <=> Active(u) /\ u # t
                        /\ Pending(u)' <=> Pending(u) /\ u # t
  BY DEF HueTypeOK, Active, Pending, Resting, CallPlace
<1>3. RevisionsDiffer'
  BY <1>2 DEF PlaceInv, RevisionsDiffer
<1>4. \A u \in Thread : Pending(u) => Active(u)
  BY DEF Pending, Active
<1>5. \A k \in Key : staged'[k] = IF k = calls[t].key /\ Current(t) THEN 0 ELSE staged[k]
  BY <1>1 DEF RemoveIfCurrent, HueTypeOK
<1>6. ASSUME NEW u \in Thread, Pending(u)', lastStaged'[calls'[u].key] = calls'[u].revision
      PROVE  Current(u)'
  <2>1. u # t /\ Pending(u) /\ calls'[u] = calls[u] /\ calls[u].key \in Key
    BY <1>2, <1>4, <1>6, ActiveCall
  <2>2. Current(u)
    BY <1>6, <2>1 DEF PlaceInv, LastStagedWins
  <2>3. ~(calls[u].key = calls[t].key /\ Current(t))
    BY <1>1, <1>4, <2>1, <2>2 DEF PlaceInv, RevisionsDiffer, Current
  <2>. QED  BY <1>5, <2>1, <2>2, <2>3 DEF Current
<1>7. ASSUME NEW k \in Key, staged'[k] # 0
      PROVE  \E u \in Thread : Pending(u)' /\ calls'[u].key = k /\ calls'[u].revision = staged'[k]
  <2>1. staged'[k] = staged[k] /\ ~(k = calls[t].key /\ Current(t))
    BY <1>5, <1>7
  <2>2. PICK u \in Thread : Pending(u) /\ calls[u].key = k /\ calls[u].revision = staged[k]
    BY <1>7, <2>1 DEF PlaceInv, LastStagedWins
  <2>3. u # t
    BY <2>1, <2>2 DEF Current
  <2>. QED  BY <1>2, <2>1, <2>2, <2>3
<1>. QED  BY <1>3, <1>6, <1>7 DEF PlaceInv, LastStagedWins

LEMMA PlaceStep == HueTypeOK /\ PlaceInv /\ [HueNext]_hueVars => PlaceInv'
<1> SUFFICES ASSUME HueTypeOK, PlaceInv, [HueNext]_hueVars PROVE PlaceInv'
  OBVIOUS
<1>1. ASSUME NEW t \in Thread, NEW k \in Key, TakeRevision(t, k) PROVE PlaceInv'
  <2>1. /\ calls'[t].at = "staging" /\ calls'[t].revision = hueRevision + 1
        /\ ~Active(t) /\ ~Pending(t)
        /\ \A u \in Thread \ {t} : calls'[u] = calls[u]
    BY <1>1 DEF TakeRevision, CallOf, HueTypeOK, Active, Pending, Resting, CallPlace
  <2>2. hueRevision' = hueRevision + 1 /\ hueRevision \in Nat
        /\ staged' = staged /\ lastStaged' = lastStaged
    BY <1>1 DEF TakeRevision, HueTypeOK
  <2>3. \A u \in Thread : Active(u) => calls[u].revision \in Nat /\ calls[u].revision <= hueRevision
    BY ActiveCall DEF PlaceInv, RevisionsDiffer, HueRevision
  <2>4. RevisionsDiffer'
    BY <2>1, <2>2, <2>3 DEF PlaceInv, RevisionsDiffer, Active
  <2>5. \A u \in Thread : (Pending(u)' <=> Pending(u)) /\ (Pending(u) => calls'[u] = calls[u])
    BY <2>1 DEF Pending
  <2>6. LastStagedWins'
    BY <2>2, <2>5 DEF PlaceInv, LastStagedWins, Current
  <2>. QED  BY <2>4, <2>6 DEF PlaceInv
<1>2. ASSUME NEW t \in Thread, StagePending(t) PROVE PlaceInv'
  <2>1. /\ Active(t) /\ ~Pending(t)
        /\ calls[t].key \in Key /\ calls[t].revision \in HueRevision
    BY <1>2, ActiveCall DEF StagePending, Active, Pending, CallPlace
  <2>2. /\ Pending(t)' /\ Active(t)'
        /\ calls'[t].key = calls[t].key /\ calls'[t].revision = calls[t].revision
        /\ \A u \in Thread \ {t} : calls'[u] = calls[u]
    BY <1>2, <2>1, ActiveCall DEF StagePending, HueTypeOK, Pending, Active, CallPlace
  <2>3. /\ hueRevision' = hueRevision
        /\ \A k \in Key : /\ staged'[k] = IF k = calls[t].key THEN calls[t].revision ELSE staged[k]
                          /\ lastStaged'[k] = IF k = calls[t].key THEN calls[t].revision
                                                                  ELSE lastStaged[k]
    BY <1>2, <2>1 DEF StagePending, HueTypeOK
  <2>4. RevisionsDiffer'
    BY <2>1, <2>2, <2>3 DEF PlaceInv, RevisionsDiffer, Active
  <2>5. ASSUME NEW u \in Thread, Pending(u)', lastStaged'[calls'[u].key] = calls'[u].revision
        PROVE  Current(u)'
    <3>1. CASE u = t
      BY <2>1, <2>2, <2>3, <3>1 DEF Current
    <3>2. CASE u # t
      <4>1. calls'[u] = calls[u] /\ Pending(u) /\ Active(u) /\ calls[u].key \in Key
        BY <2>2, <2>5, <3>2, ActiveCall DEF Pending, Active
      <4>2. calls[u].revision # calls[t].revision
        BY <2>1, <3>2, <4>1 DEF PlaceInv, RevisionsDiffer
      <4>. QED  BY <2>3, <2>5, <4>1, <4>2 DEF PlaceInv, LastStagedWins, Current
    <3>. QED  BY <3>1, <3>2
  <2>6. ASSUME NEW k \in Key, staged'[k] # 0
        PROVE  \E u \in Thread : Pending(u)' /\ calls'[u].key = k /\ calls'[u].revision = staged'[k]
    <3>1. CASE k = calls[t].key
      BY <2>2, <2>3, <3>1
    <3>2. CASE k # calls[t].key
      <4>1. PICK u \in Thread : Pending(u) /\ calls[u].key = k /\ calls[u].revision = staged[k]
        BY <2>3, <2>6, <3>2 DEF PlaceInv, LastStagedWins
      <4>2. calls'[u] = calls[u] /\ Pending(u)'
        BY <2>1, <2>2, <4>1 DEF Pending
      <4>. QED  BY <2>3, <3>2, <4>1, <4>2
    <3>. QED  BY <3>1, <3>2
  <2>. QED  BY <2>4, <2>5, <2>6 DEF PlaceInv, LastStagedWins
<1>3. ASSUME NEW t \in Thread, Reserve(t) PROVE PlaceInv'
  <2>1. Pending(t)
    BY <1>3 DEF Reserve, Pending, CallPlace
  <2>2. Scheduled \in Nat
    BY DEF Scheduled, HueTypeOK
  <2>. QED  BY <1>3, <2>1, <2>2, MovesOn DEF Reserve, CallPlace
<1>4. ASSUME NEW t \in Thread, PassWindow(t) \/ Send(t) PROVE PlaceInv'
  <2>1. Pending(t)
    BY <1>4 DEF PassWindow, Send, Pending, CallPlace
  <2>2. Active(t) /\ calls[t].until \in Nat
    BY <2>1, ActiveCall DEF Pending, Active
  <2>3. PICK place \in {"reserving", "sending"} : calls' = [calls EXCEPT ![t].at = place]
    BY <1>4 DEF PassWindow, Send
  <2>4. calls' = [calls EXCEPT ![t].at = place, ![t].until = calls[t].until]
    BY <2>2, <2>3, MovedCall DEF CallPlace
  <2>. QED  BY <1>4, <2>1, <2>2, <2>4, MovesOn DEF PassWindow, Send, CallPlace
<1>5. ASSUME NEW t \in Thread,
             SupersededInWindow(t) \/ DeadlineExceeded(t) \/ SupersededInQueue(t) \/ Answered(t)
      PROVE  PlaceInv'
  <2>1. Pending(t)
    BY <1>5 DEF SupersededInWindow, DeadlineExceeded, SupersededInQueue, Answered, Pending, CallPlace
  <2>. QED
    BY <1>5, <2>1, Ends DEF SupersededInWindow, DeadlineExceeded, SupersededInQueue, Answered
<1>6. CASE UNCHANGED <<hueRevision, staged, lastStaged, calls>>
  BY <1>6 DEF PlaceInv, RevisionsDiffer, LastStagedWins, Active, Pending, Current
<1>7. ASSUME NEW k \in Key, RegisterLight(k) PROVE PlaceInv'
  BY <1>6, <1>7 DEF RegisterLight
<1>8. CASE HueTick
  BY <1>6, <1>8 DEF HueTick
<1>9. CASE UNCHANGED hueVars
  BY <1>6, <1>9 DEF hueVars
<1>. QED  BY <1>1, <1>2, <1>3, <1>4, <1>5, <1>7, <1>8, <1>9 DEF HueNext

-----------------------------------------------------------------------------
(* The theorems. *)

LEMMA HueInvariants == HueSpec => [](HueTypeOK /\ GateInv /\ PlaceInv)
<1>1. HueInit => HueTypeOK /\ GateInv /\ PlaceInv
  <2>1. HueInit => GateInv
    BY DEF HueInit, GateInv, SlotsAreSpaced
  <2>2. HueInit => PlaceInv
    BY DEF HueInit, PlaceInv, RevisionsDiffer, LastStagedWins, Active, Pending, Resting, CallPlace
  <2>. QED  BY <2>1, <2>2, TypeInit
<1>2. HueTypeOK /\ GateInv /\ PlaceInv /\ [HueNext]_hueVars => (HueTypeOK /\ GateInv /\ PlaceInv)'
  BY TypeStep, GateStep, PlaceStep
<1>. QED  BY <1>1, <1>2, PTL DEF HueSpec

\* Every state of the dispatcher, its gate and its threads has its type.
THEOREM HueTypeCorrect == HueSpec => []HueTypeOK
BY HueInvariants, PTL

\* HueRateGate::reserve: whoever asks, and when, slots are an interval apart and
\* none is further ahead than the deadline.
THEOREM SlotsSpaced == HueSpec => []SlotsAreSpaced
<1>1. GateInv => SlotsAreSpaced
  BY DEF GateInv
<1>. QED  BY HueInvariants, <1>1, PTL

\* stage_pending and remove_pending_if_current: the value staged last for a
\* property keeps its place while its call is under way, and no value stays
\* behind its call.
THEOREM NewestValueStays == HueSpec => []LastStagedWins
<1>1. PlaceInv => LastStagedWins
  BY DEF PlaceInv
<1>. QED  BY HueInvariants, <1>1, PTL

-----------------------------------------------------------------------------
(* HuePairing. *)

USE PairingAssumption

PairPlace == {"idle", "created", "synchronised", "stored", "saved"}
Under(r) == pairing[r].at # "idle"

\* Types, and what each step of a pairing finds done by those before it.
PairInv ==
    /\ appKeys \in Seq(Host)
    /\ accepted \subseteq AppKey /\ synced \subseteq AppKey
    /\ keychain \in [Host -> AppKey \cup {0}] /\ bridges \subseteq Host
    /\ restoring \subseteq bridges
    /\ pairing \in [PairRequest -> [at : PairPlace, key : AppKey \cup {0}]]
    /\ dispatchers \in Seq(AppKey) /\ active \in AppKey \cup {0} /\ threads \subseteq AppKey

StepsInv ==
    /\ \A h \in Host : keychain[h] # 0 => keychain[h] \in synced \cap AppKeysOf(h)
    /\ \A h \in bridges : keychain[h] # 0
    /\ \A r \in PairRequest : Under(r) =>
          /\ pairing[r].key \in AppKey
          /\ pairing[r].at # "created" => pairing[r].key \in synced
          /\ pairing[r].at \in {"stored", "saved"} => keychain[appKeys[pairing[r].key]] # 0
          /\ pairing[r].at = "saved" => appKeys[pairing[r].key] \in bridges
    /\ \A k \in threads : appKeys[k] \in bridges /\ k \in ToSet(dispatchers)
    /\ active # 0 => active \in threads

LEMMA PairInvInit == PairingInit => PairInv /\ StepsInv
BY DEF PairingInit, PairInv, StepsInv, Under, NotPairing, AppKey, AppKeysOf, PairPlace

\* One key more.
LEMMA OneKeyMore ==
  ASSUME PairInv, NEW h \in Host, appKeys' = Append(appKeys, h)
  PROVE  /\ AppKey' = AppKey \cup {Len(appKeys) + 1} /\ Len(appKeys) + 1 \notin AppKey
         /\ 0 \notin AppKey /\ AppKey \subseteq AppKey'
         /\ appKeys' \in Seq(Host)
         /\ \A k \in AppKey : appKeys'[k] = appKeys[k]
         /\ appKeys'[Len(appKeys) + 1] = h
BY DEF PairInv, AppKey

\* One dispatcher more.
LEMMA OneDispatcherMore ==
  ASSUME PairInv, NEW k \in AppKey
  PROVE  /\ Append(dispatchers, k) \in Seq(AppKey)
         /\ ToSet(Append(dispatchers, k)) = ToSet(dispatchers) \cup {k}
<1>1. /\ dispatchers \in Seq(AppKey) /\ Len(Append(dispatchers, k)) = Len(dispatchers) + 1
      /\ Append(dispatchers, k)[Len(dispatchers) + 1] = k
      /\ \A i \in 1..Len(dispatchers) : Append(dispatchers, k)[i] = dispatchers[i]
      /\ Append(dispatchers, k) \in Seq(AppKey)
  BY DEF PairInv
<1>. QED  BY <1>1 DEF ToSet

\* A call of pair that goes on, or ends.
LEMMA PairingMoves ==
  ASSUME PairInv, NEW r \in PairRequest, NEW place \in PairPlace, PairGoes(r, place) \/ PairEnds(r)
  PROVE  /\ pairing' \in [PairRequest -> [at : PairPlace, key : AppKey \cup {0}]]
         /\ \A q \in PairRequest : q # r => pairing'[q] = pairing[q]
         /\ PairGoes(r, place) => pairing'[r].at = place /\ pairing'[r].key = pairing[r].key
         /\ PairEnds(r) => pairing'[r].at = "idle"
<1>1. CASE PairGoes(r, place)
  <2>1. [pairing[r] EXCEPT !.at = place] \in [at : PairPlace, key : AppKey \cup {0}]
    BY DEF PairInv
  <2>2. pairing' = [pairing EXCEPT ![r] = [pairing[r] EXCEPT !.at = place]]
    BY <1>1 DEF PairGoes
  <2>3. PairEnds(r) => pairing'[r].at = "idle"
    BY DEF PairEnds, NotPairing, PairInv
  <2>. QED  BY <2>1, <2>2, <2>3 DEF PairInv
<1>2. CASE PairEnds(r) /\ ~PairGoes(r, place)
  <2>1. NotPairing \in [at : PairPlace, key : AppKey \cup {0}] /\ NotPairing.at = "idle"
    BY DEF NotPairing, PairPlace
  <2>. QED  BY <1>2, <2>1 DEF PairEnds, PairInv
<1>. QED  BY <1>1, <1>2

LEMMA PairInvStep == PairInv /\ StepsInv /\ [PairingNext]_pairingVars => PairInv' /\ StepsInv'
<1> SUFFICES ASSUME PairInv, StepsInv, [PairingNext]_pairingVars PROVE PairInv' /\ StepsInv'
  OBVIOUS
<1>0. appKeys' = appKeys => AppKey' = AppKey /\ \A h \in Host : AppKeysOf(h)' = AppKeysOf(h)
  BY DEF AppKey, AppKeysOf
<1>1. ASSUME NEW r \in PairRequest, NEW h \in Host, CreateKey(r, h) PROVE PairInv' /\ StepsInv'
  <2> DEFINE k == Len(appKeys) + 1
  <2>1. /\ AppKey' = AppKey \cup {k} /\ k \notin AppKey /\ AppKey \subseteq AppKey'
        /\ appKeys' \in Seq(Host) /\ \A x \in AppKey : appKeys'[x] = appKeys[x]
    BY <1>1, OneKeyMore DEF CreateKey
  <2>2. \A g \in Host : AppKeysOf(g) \subseteq AppKeysOf(g)'
    BY <2>1 DEF AppKeysOf
  <2>3. pairing' = [pairing EXCEPT ![r] = [at |-> "created", key |-> k]]
    BY <1>1 DEF CreateKey
  <2>. HIDE DEF k
  <2>4. PairInv'
    <3>1. dispatchers' \in Seq(AppKey')
      <4>1. dispatchers \in Seq(AppKey)
        BY DEF PairInv
      <4>. QED  BY <1>1, <2>1, <4>1 DEF CreateKey
    <3>2. [at |-> "created", key |-> k] \in [at : PairPlace, key : AppKey' \cup {0}]
      BY <2>1 DEF PairPlace
    <3>3. pairing' \in [PairRequest -> [at : PairPlace, key : AppKey' \cup {0}]]
      BY <2>1, <2>3, <3>2 DEF PairInv
    <3>4. accepted' \subseteq AppKey'
      BY <1>1, <2>1 DEF CreateKey, PairInv, k
    <3>. QED  BY <1>1, <2>1, <3>1, <3>3, <3>4 DEF CreateKey, PairInv
  <2>5. StepsInv'
    <3>1. \A q \in PairRequest : q # r => pairing'[q] = pairing[q]
      BY <2>3 DEF PairInv
    <3>2. pairing'[r] = [at |-> "created", key |-> k]
      BY <2>3 DEF PairInv
    <3>. QED  BY <1>1, <2>1, <2>2, <3>1, <3>2 DEF CreateKey, PairInv, StepsInv, Under
  <2>. QED  BY <2>4, <2>5
<1>2. ASSUME NEW r \in PairRequest, FirstInventory(r) PROVE PairInv' /\ StepsInv'
  <2>1. /\ PairAt(r, "created") /\ pairing[r].key \in AppKey
        /\ UNCHANGED <<appKeys, accepted, keychain, bridges, restoring, dispatchers, active, threads>>
    BY <1>2 DEF FirstInventory, PairAt, StepsInv, Under
  <2>2. CASE Synchronised(pairing[r].key) /\ PairGoes(r, "synchronised")
    <3>1. "synchronised" \in PairPlace /\ synced' = synced \cup {pairing[r].key}
      BY <2>2 DEF PairPlace, Synchronised
    <3>2. PairInv'
      BY <1>0, <2>1, <2>2, <3>1, PairingMoves DEF PairInv
    <3>. QED  BY <1>0, <2>1, <2>2, <3>1, <3>2, PairingMoves DEF StepsInv, Under
  <2>3. CASE PairEnds(r) /\ UNCHANGED synced
    <3>1. "idle" \in PairPlace
      BY DEF PairPlace
    <3>2. PairInv'
      BY <1>0, <2>1, <2>3, <3>1, PairingMoves DEF PairInv
    <3>. QED  BY <1>0, <2>1, <2>3, <3>1, <3>2, PairingMoves DEF StepsInv, Under
  <2>. QED  BY <1>2, <2>2, <2>3 DEF FirstInventory
<1>3. ASSUME NEW r \in PairRequest, StoreSecret(r) PROVE PairInv' /\ StepsInv'
  <2> DEFINE k == pairing[r].key
             h == appKeys[k]
  <2>1. /\ PairAt(r, "synchronised") /\ k \in AppKey /\ k # 0 /\ h \in Host
        /\ k \in synced \cap AppKeysOf(h)
    BY <1>3 DEF StoreSecret, PairAt, PairInv, StepsInv, Under, AppKeysOf, AppKey
  <2>2. UNCHANGED <<appKeys, accepted, bridges, restoring, dispatchers, active, threads, synced>>
    BY <1>3 DEF StoreSecret
  <2>3. CASE keychain' = [keychain EXCEPT ![h] = k] /\ PairGoes(r, "stored")
    <3>1. "stored" \in PairPlace
      BY DEF PairPlace
    <3>2. keychain' \in [Host -> AppKey \cup {0}] /\ keychain'[h] = k
          /\ \A g \in Host : g # h => keychain'[g] = keychain[g]
      BY <2>1, <2>3 DEF PairInv
    <3>3. PairInv'
      BY <1>0, <2>2, <2>3, <3>1, <3>2, PairingMoves DEF PairInv
    <3>4. \A q \in PairRequest : q # r => pairing'[q] = pairing[q]
      BY <2>3, <3>1, PairingMoves
    <3>5. pairing'[r].at = "stored" /\ pairing'[r].key = k
      BY <2>3, <3>1, PairingMoves
    <3>6. \A x \in AppKey : appKeys[x] \in Host
      BY DEF PairInv, AppKey
    <3>. HIDE DEF k, h
    <3>7. \A g \in Host : keychain'[g] # 0 => keychain'[g] \in synced \cap AppKeysOf(g)
      BY <2>1, <3>2 DEF StepsInv
    <3>8. \A g \in Host : keychain[g] # 0 => keychain'[g] # 0
      BY <2>1, <3>2
    <3>9. \A g \in bridges : keychain'[g] # 0
      BY <3>8 DEF StepsInv, PairInv
    <3>10. \A q \in PairRequest : pairing'[q].at # "idle" =>
          /\ pairing'[q].key \in AppKey
          /\ pairing'[q].at # "created" => pairing'[q].key \in synced
          /\ pairing'[q].at \in {"stored", "saved"} => keychain'[appKeys[pairing'[q].key]] # 0
          /\ pairing'[q].at = "saved" => appKeys[pairing'[q].key] \in bridges
      <4>1. /\ k \in AppKey /\ k \in synced /\ keychain'[appKeys[k]] # 0
        BY <2>1, <3>2 DEF h
      <4>2. ASSUME NEW q \in PairRequest, q # r, pairing[q].at # "idle"
            PROVE  /\ pairing[q].key \in AppKey
                   /\ pairing[q].at # "created" => pairing[q].key \in synced
                   /\ pairing[q].at \in {"stored", "saved"} => keychain'[appKeys[pairing[q].key]] # 0
                   /\ pairing[q].at = "saved" => appKeys[pairing[q].key] \in bridges
        BY <3>6, <3>8, <4>2 DEF StepsInv, Under
      <4>. QED  BY <3>4, <3>5, <4>1, <4>2
    <3>. QED  BY <1>0, <2>2, <3>3, <3>7, <3>9, <3>10 DEF StepsInv, Under
  <2>4. CASE PairEnds(r) /\ UNCHANGED keychain
    <3>1. "idle" \in PairPlace
      BY DEF PairPlace
    <3>2. PairInv'
      BY <1>0, <2>2, <2>4, <3>1, PairingMoves DEF PairInv
    <3>. QED  BY <1>0, <2>2, <2>4, <3>1, <3>2, PairingMoves DEF StepsInv, Under
  <2>. QED  BY <1>3, <2>3, <2>4 DEF StoreSecret
<1>4. ASSUME NEW r \in PairRequest, SaveHueBridge(r) PROVE PairInv' /\ StepsInv'
  <2>1. /\ PairAt(r, "stored") /\ appKeys[pairing[r].key] \in Host
        /\ keychain[appKeys[pairing[r].key]] # 0
    BY <1>4 DEF SaveHueBridge, PairAt, PairInv, StepsInv, Under, AppKey
  <2>2. UNCHANGED <<appKeys, accepted, keychain, restoring, dispatchers, active, threads, synced>>
    BY <1>4 DEF SaveHueBridge
  <2>3. CASE bridges' = bridges \cup {appKeys[pairing[r].key]} /\ PairGoes(r, "saved")
    <3>1. "saved" \in PairPlace
      BY DEF PairPlace
    <3>2. PairInv'
      BY <1>0, <2>1, <2>2, <2>3, <3>1, PairingMoves DEF PairInv
    <3>. QED  BY <1>0, <2>1, <2>2, <2>3, <3>1, <3>2, PairingMoves DEF StepsInv, Under, PairAt
  <2>4. CASE PairEnds(r) /\ UNCHANGED bridges
    <3>1. "idle" \in PairPlace
      BY DEF PairPlace
    <3>2. PairInv'
      BY <1>0, <2>2, <2>4, <3>1, PairingMoves DEF PairInv
    <3>. QED  BY <1>0, <2>2, <2>4, <3>1, <3>2, PairingMoves DEF StepsInv, Under
  <2>. QED  BY <1>4, <2>3, <2>4 DEF SaveHueBridge
<1>5. ASSUME NEW r \in PairRequest, FollowPaired(r) PROVE PairInv' /\ StepsInv'
  <2>1. pairing[r].key \in AppKey /\ appKeys[pairing[r].key] \in bridges
    BY <1>5 DEF FollowPaired, PairAt, StepsInv, Under
  <2>. QED  BY <1>0, <1>5, <2>1, OneDispatcherMore DEF FollowPaired, Follow, PairEnds, PairAt, NotPairing,
       PairInv, StepsInv, Under, PairPlace
<1>6. CASE StartServer
  BY <1>0, <1>6 DEF StartServer, PairInv, StepsInv, Under
<1>7. ASSUME NEW h \in Host, RestoreBridge(h) PROVE PairInv' /\ StepsInv'
  <2>1. CASE Synchronised(keychain[h]) /\ Follow(keychain[h])
    <3>1. /\ keychain[h] \in AppKey /\ appKeys[keychain[h]] = h /\ h \in bridges
      BY <1>7, <2>1 DEF RestoreBridge, Synchronised, PairInv, StepsInv, AppKeysOf, AppKey
    <3>. QED  BY <1>0, <1>7, <2>1, <3>1, OneDispatcherMore DEF RestoreBridge, Synchronised, Follow,
         PairInv, StepsInv, Under
  <2>2. CASE UNCHANGED <<dispatchers, active, threads, synced>>
    BY <1>0, <1>7, <2>2 DEF RestoreBridge, PairInv, StepsInv, Under
  <2>. QED  BY <1>7, <2>1, <2>2 DEF RestoreBridge
<1>8. CASE Serve
  BY <1>0, <1>8 DEF Serve, PairInv, StepsInv, Under
<1>9. CASE Die
  BY <1>0, <1>9 DEF Die, NotPairing, PairInv, StepsInv, Under, PairPlace
<1>10. ASSUME NEW k \in accepted, Revoke(k) PROVE PairInv' /\ StepsInv'
  BY <1>0, <1>10 DEF Revoke, PairInv, StepsInv, Under
<1>11. CASE UNCHANGED pairingVars
  BY <1>0, <1>11 DEF pairingVars, PairInv, StepsInv, Under
<1>. QED  BY <1>1, <1>2, <1>3, <1>4, <1>5, <1>6, <1>7, <1>8, <1>9, <1>10, <1>11 DEF PairingNext

\* pair and restore_paired_bridges: whatever step fails, overlaps or dies, a
\* bridge on record has a key of its own that was good for an inventory, and
\* what is followed is on record and has its dispatcher.
THEOREM PairedBridgesComeBack == PairingSpec => []FollowedBridgesComeBack
<1>1. PairInv /\ StepsInv => FollowedBridgesComeBack
  BY DEF PairInv, StepsInv, FollowedBridgesComeBack
<1>. QED  BY <1>1, PairInvInit, PairInvStep, PTL DEF PairingSpec

\* The bounds of the model, which PairInv leaves out.
PairBounds ==
    /\ Len(appKeys) \in 0..MaxAppKeys /\ lives \in 0..MaxLives
    /\ server \in {"down", "starting", "serving"}

LEMMA PairBoundsStep == PairInv /\ PairBounds /\ [PairingNext]_pairingVars => PairBounds'
<1> SUFFICES ASSUME PairInv, PairBounds, [PairingNext]_pairingVars PROVE PairBounds'
  OBVIOUS
<1>. USE DEF PairBounds
<1>1. ASSUME NEW r \in PairRequest, NEW h \in Host, CreateKey(r, h) PROVE PairBounds'
  <2>1. Len(appKeys') = Len(appKeys) + 1
    BY <1>1 DEF CreateKey, PairInv
  <2>. QED  BY <1>1, <2>1 DEF CreateKey
<1>2. ASSUME NEW r \in PairRequest,
             FirstInventory(r) \/ StoreSecret(r) \/ SaveHueBridge(r) \/ FollowPaired(r)
      PROVE  PairBounds'
  BY <1>2 DEF FirstInventory, StoreSecret, SaveHueBridge, FollowPaired
<1>3. CASE StartServer
  BY <1>3 DEF StartServer
<1>4. ASSUME NEW h \in Host, RestoreBridge(h) PROVE PairBounds'
  BY <1>4 DEF RestoreBridge
<1>5. CASE Serve \/ Die
  BY <1>5 DEF Serve, Die
<1>6. ASSUME NEW k \in accepted, Revoke(k) PROVE PairBounds'
  BY <1>6 DEF Revoke
<1>7. CASE UNCHANGED pairingVars
  BY <1>7 DEF pairingVars
<1>. QED  BY <1>1, <1>2, <1>3, <1>4, <1>5, <1>6, <1>7 DEF PairingNext

\* Keys, rows, calls of pair and what is followed keep their types: no step
\* refers to a key that no bridge has made.
THEOREM PairingTypeCorrect == PairingSpec => []PairingTypeOK
<1>1. PairingInit => PairBounds
  BY DEF PairingInit, PairBounds
<1>2. PairInv /\ PairBounds => PairingTypeOK
  BY DEF PairInv, PairBounds, PairingTypeOK, PairPlace
<1>3. PairInv /\ StepsInv /\ PairBounds /\ [PairingNext]_pairingVars
        => (PairInv /\ StepsInv /\ PairBounds)'
  BY PairInvStep, PairBoundsStep
<1>. QED  BY PairInvInit, <1>1, <1>2, <1>3, PTL DEF PairingSpec

-----------------------------------------------------------------------------
(* MatterSidecar. *)

USE SidecarAssumption

JobPlace == {"new", "sent", "commissioned", "read", "saved", "answered", "lost"}
JobCall == [at : JobPlace, daemon : Nat, outcome : JobStatus, copy : JobFile, waiting : BOOLEAN]

\* Types of what the jobs and the routes depend on.
SideTypes ==
    /\ launched \in Nat /\ daemons \subseteq Nat /\ binding \subseteq Nat /\ socket \in Nat
    /\ jobCalls \in [JobRequest -> JobCall] /\ jobFile \in JobFile

\* What is read is what the file holds, what was saved is in it.
JobInv ==
    /\ told \subseteq JobRequest /\ \A r \in told : JobAt(r, "answered")
    /\ \A r, s \in JobRequest :
          JobAt(r, "read") /\ JobAt(s, "read") /\ jobCalls[r].daemon = jobCalls[s].daemon => r = s
    /\ ~crossed => \A r \in JobRequest :
          /\ JobAt(r, "read") => jobCalls[r].copy = jobFile
          /\ jobCalls[r].at \in {"saved", "answered"} => jobFile[r] = jobCalls[r].outcome

\* A node of the inventory has its routes or is about to be registered.
RouteInv ==
    /\ Synchronizing => inventory \subseteq routed \cup unregistered
    /\ supervisor = "idle" /\ matterHealth = "available" => inventory \subseteq routed

LEMMA SideInit == SidecarInit => SideTypes /\ JobInv /\ RouteInv
BY DEF SidecarInit, SideTypes, JobInv, RouteInv, JobCall, JobPlace, JobFile, JobStatus, NoJobs,
       NotAsked, JobAt, Synchronizing

\* The server and the processes leave the jobs alone, but for those that wait.
LEMMA LaunchTypes ==
  ASSUME SideTypes, Launch
  PROVE  launched' \in Nat /\ daemons' \subseteq Nat /\ binding' \subseteq Nat
<1>1. launched \in Nat /\ daemons \subseteq Nat /\ binding \subseteq Nat
  BY DEF SideTypes
<1>2. CASE UNCHANGED <<launched, daemons, binding, child>>
  BY <1>1, <1>2
<1>3. CASE /\ launched' = launched + 1 /\ daemons' = daemons \cup {launched + 1}
           /\ binding' = binding \cup {launched + 1}
  BY <1>1, <1>3
<1> QED BY <1>2, <1>3 DEF Launch

LEMMA JobsKept ==
  ASSUME SideTypes, JobInv, jobs' = jobs
  PROVE  /\ JobInv' /\ jobCalls' \in [JobRequest -> JobCall] /\ jobFile' \in JobFile
BY DEF SideTypes, JobInv, jobs, JobAt

\* A request that goes to a place where nothing is promised, as it was or sent.
LEMMA JobsLoosened ==
  ASSUME SideTypes, JobInv, UNCHANGED <<jobFile, told, crossed>>,
         jobCalls' \in [JobRequest -> JobCall],
         \A r \in JobRequest :
            \/ /\ jobCalls'[r].at = jobCalls[r].at /\ jobCalls'[r].daemon = jobCalls[r].daemon
               /\ jobCalls'[r].copy = jobCalls[r].copy
               /\ jobCalls'[r].outcome = jobCalls[r].outcome
            \/ /\ jobCalls'[r].at \notin {"read", "saved", "answered"}
               /\ jobCalls[r].at # "answered"
  PROVE  JobInv'
<1>1. \A r \in told' : JobAt(r, "answered")'
  BY DEF JobInv, JobAt
<1>2. \A r, s \in JobRequest :
          (JobAt(r, "read") /\ JobAt(s, "read") /\ jobCalls[r].daemon = jobCalls[s].daemon)' => r = s
  BY DEF JobInv, JobAt
<1>3. ~crossed' => \A r \in JobRequest :
          /\ JobAt(r, "read")' => jobCalls'[r].copy = jobFile'
          /\ jobCalls'[r].at \in {"saved", "answered"} => jobFile'[r] = jobCalls'[r].outcome
  BY DEF JobInv, JobAt
<1> QED BY <1>1, <1>2, <1>3 DEF JobInv, JobAt

LEMMA SideStep ==
  ASSUME SideTypes, JobInv, RouteInv, [SidecarNext]_sidecarVars
  PROVE  SideTypes' /\ JobInv' /\ RouteInv'
<1>1. CASE StartMatter \/ Supervise
  <2>1. SideTypes' /\ JobInv'
    BY <1>1, LaunchTypes, JobsKept DEF StartMatter, Supervise, SideTypes, jobs
  <2>2. RouteInv'
    BY <1>1 DEF StartMatter, Supervise, BeginSynchronize, Degrade, RouteInv, Synchronizing
  <2> QED BY <2>1, <2>2
<1>2. CASE FailSynchronize \/ EndSynchronize \/ \E n \in Node : RegisterNode(n)
  <2>1. SideTypes' /\ JobInv'
    BY <1>2, JobsKept DEF FailSynchronize, EndSynchronize, RegisterNode, SideTypes, jobs, fleet
  <2>2. RouteInv'
    BY <1>2 DEF FailSynchronize, EndSynchronize, RegisterNode, Degrade, RouteInv, Synchronizing
  <2> QED BY <2>1, <2>2
<1>3. CASE ServerDies
  <2>1. /\ jobCalls' \in [JobRequest -> JobCall]
        /\ \A r \in JobRequest : /\ jobCalls'[r].at = jobCalls[r].at
                                 /\ jobCalls'[r].daemon = jobCalls[r].daemon
                                 /\ jobCalls'[r].copy = jobCalls[r].copy
                                 /\ jobCalls'[r].outcome = jobCalls[r].outcome
    BY <1>3 DEF ServerDies, SideTypes, JobCall
  <2>2. JobInv'
    BY <1>3, <2>1, JobsLoosened DEF ServerDies
  <2>3. SideTypes' /\ RouteInv'
    BY <1>3, <2>1 DEF ServerDies, SideTypes, fleet, RouteInv, Synchronizing
  <2> QED BY <2>2, <2>3
<1>4. ASSUME NEW g \in daemons, Bind(g)
      PROVE  SideTypes' /\ JobInv' /\ RouteInv'
  <2>1. SideTypes' /\ JobInv'
    BY <1>4, JobsKept DEF Bind, SideTypes, jobs
  <2>2. RouteInv'
    BY <1>4 DEF Bind, home, RouteInv, Synchronizing
  <2> QED BY <2>1, <2>2
<1>5. ASSUME NEW g \in daemons, DaemonDies(g)
      PROVE  SideTypes' /\ JobInv' /\ RouteInv'
  <2>1. jobCalls' \in [JobRequest -> JobCall]
    <3>1. ASSUME NEW r \in JobRequest
          PROVE  /\ jobCalls[r] \in JobCall
                 /\ [jobCalls[r] EXCEPT !.at = "lost", !.waiting = FALSE] \in JobCall
      BY DEF SideTypes, JobCall, JobPlace
    <3> QED BY <1>5, <3>1 DEF DaemonDies
  <2>2. ASSUME NEW r \in JobRequest
        PROVE  \/ /\ jobCalls'[r].at = jobCalls[r].at /\ jobCalls'[r].daemon = jobCalls[r].daemon
                  /\ jobCalls'[r].copy = jobCalls[r].copy
                  /\ jobCalls'[r].outcome = jobCalls[r].outcome
               \/ /\ jobCalls'[r].at \notin {"read", "saved", "answered"}
                  /\ jobCalls[r].at # "answered"
    BY <1>5 DEF DaemonDies, SideTypes, JobCall, JobAt
  <2>3. JobInv'
    BY <1>5, <2>1, <2>2, JobsLoosened DEF DaemonDies
  <2>4. SideTypes' /\ RouteInv'
    BY <1>5, <2>1 DEF DaemonDies, SideTypes, home, RouteInv, Synchronizing
  <2> QED BY <2>3, <2>4
<1>6. ASSUME NEW r \in JobRequest, AskJob(r) \/ Commission(r) \/ TimeOut(r)
      PROVE  SideTypes' /\ JobInv' /\ RouteInv'
  <2>1. jobCalls' \in [JobRequest -> JobCall]
    <3>1. jobCalls[r] \in JobCall /\ socket \in Nat
      BY DEF SideTypes
    <3>2. ASSUME NEW outcome \in Outcomes
          PROVE  [jobCalls[r] EXCEPT !.at = "commissioned", !.outcome = outcome] \in JobCall
      BY <3>1 DEF JobCall, JobPlace, JobStatus
    <3>3. [jobCalls[r] EXCEPT !.at = "sent", !.daemon = socket, !.waiting = TRUE] \in JobCall
      BY <3>1 DEF JobCall, JobPlace
    <3>4. CASE AskJob(r)
      BY <3>3, <3>4 DEF AskJob, SideTypes
    <3>5. CASE Commission(r)
      BY <3>2, <3>5 DEF Commission, SideTypes
    <3>6. CASE TimeOut(r)
      BY <3>1, <3>6 DEF TimeOut, SideTypes, JobCall
    <3> QED BY <1>6, <3>4, <3>5, <3>6
  <2>2. ASSUME NEW s \in JobRequest
        PROVE  \/ /\ jobCalls'[s].at = jobCalls[s].at /\ jobCalls'[s].daemon = jobCalls[s].daemon
                  /\ jobCalls'[s].copy = jobCalls[s].copy
                  /\ jobCalls'[s].outcome = jobCalls[s].outcome
               \/ /\ jobCalls'[s].at \notin {"read", "saved", "answered"}
                  /\ jobCalls[s].at # "answered"
    BY <1>6 DEF AskJob, Commission, TimeOut, SideTypes, JobCall, JobAt
  <2>3. JobInv'
    BY <1>6, <2>1, <2>2, JobsLoosened DEF AskJob, Commission, TimeOut
  <2>4. SideTypes' /\ RouteInv'
    BY <1>6, <2>1 DEF AskJob, Commission, TimeOut, SideTypes, fleet, home, RouteInv, Synchronizing
  <2> QED BY <2>3, <2>4
<1>7. ASSUME NEW r \in JobRequest, ReadJobs(r)
      PROVE  SideTypes' /\ JobInv' /\ RouteInv'
  <2>1. /\ jobCalls' \in [JobRequest -> JobCall]
        /\ \A s \in JobRequest \ {r} : jobCalls'[s] = jobCalls[s]
        /\ jobCalls'[r].at = "read" /\ jobCalls'[r].copy = jobFile
        /\ jobCalls'[r].daemon = jobCalls[r].daemon /\ jobCalls[r].at = "commissioned"
    BY <1>7 DEF ReadJobs, SideTypes, JobCall, JobPlace, JobAt
  <2>2. \A s, q \in JobRequest :
          (JobAt(s, "read") /\ JobAt(q, "read") /\ jobCalls[s].daemon = jobCalls[q].daemon)' => s = q
    BY <1>7, <2>1 DEF ReadJobs, JobInv, Locked, JobAt
  <2>3. \A s \in told' : JobAt(s, "answered")'
    BY <1>7, <2>1 DEF ReadJobs, JobInv, JobAt
  <2>4. ~crossed' => \A s \in JobRequest :
          /\ JobAt(s, "read")' => jobCalls'[s].copy = jobFile'
          /\ jobCalls'[s].at \in {"saved", "answered"} => jobFile'[s] = jobCalls'[s].outcome
    BY <1>7, <2>1 DEF ReadJobs, JobInv, JobAt
  <2>5. SideTypes' /\ RouteInv' /\ told' \subseteq JobRequest
    BY <1>7, <2>1 DEF ReadJobs, SideTypes, fleet, home, RouteInv, Synchronizing, JobInv
  <2> QED BY <2>2, <2>3, <2>4, <2>5 DEF JobInv, JobAt
<1>8. ASSUME NEW r \in JobRequest, WriteJobs(r)
      PROVE  SideTypes' /\ JobInv' /\ RouteInv'
  <2>1. CASE JobGoes(r, "lost") /\ UNCHANGED <<jobFile, crossed>>
    <3>1. /\ jobCalls' \in [JobRequest -> JobCall]
          /\ \A s \in JobRequest \ {r} : jobCalls'[s] = jobCalls[s]
          /\ jobCalls'[r].at = "lost" /\ jobCalls[r].at # "answered"
      BY <1>8, <2>1 DEF WriteJobs, JobGoes, SideTypes, JobCall, JobPlace, JobAt
    <3>2. JobInv'
      BY <1>8, <2>1, <3>1, JobsLoosened DEF WriteJobs
    <3> QED BY <1>8, <2>1, <3>1, <3>2
            DEF WriteJobs, SideTypes, fleet, home, RouteInv, Synchronizing
  <2>2. CASE /\ jobFile' = [jobCalls[r].copy EXCEPT ![r] = jobCalls[r].outcome]
             /\ crossed' = (crossed \/ \E s \in JobRequest :
                               JobAt(s, "read") /\ jobCalls[s].daemon # jobCalls[r].daemon)
             /\ JobGoes(r, "saved")
    <3>1. /\ jobCalls' \in [JobRequest -> JobCall]
          /\ \A s \in JobRequest \ {r} : jobCalls'[s] = jobCalls[s]
          /\ jobCalls'[r].at = "saved" /\ jobCalls'[r].outcome = jobCalls[r].outcome
          /\ jobCalls[r].at = "read"
      BY <1>8, <2>2 DEF WriteJobs, JobGoes, SideTypes, JobCall, JobPlace, JobAt
    <3>2. /\ jobFile' \in JobFile /\ jobFile'[r] = jobCalls[r].outcome
          /\ \A s \in JobRequest \ {r} : jobFile'[s] = jobCalls[r].copy[s]
      BY <2>2 DEF SideTypes, JobCall, JobFile
    <3>3. ASSUME ~crossed'
          PROVE  /\ ~crossed /\ jobCalls[r].copy = jobFile
                 /\ \A s \in JobRequest \ {r} : ~JobAt(s, "read")
      BY <2>2, <3>1, <3>3 DEF JobInv, JobAt
    <3>4. ~crossed' => \A s \in JobRequest :
          /\ JobAt(s, "read")' => jobCalls'[s].copy = jobFile'
          /\ jobCalls'[s].at \in {"saved", "answered"} => jobFile'[s] = jobCalls'[s].outcome
      BY <3>1, <3>2, <3>3 DEF JobInv, JobAt
    <3>5. \A s \in told' : JobAt(s, "answered")'
      BY <1>8, <3>1 DEF WriteJobs, JobInv, JobAt
    <3>6. \A s, q \in JobRequest :
          (JobAt(s, "read") /\ JobAt(q, "read") /\ jobCalls[s].daemon = jobCalls[q].daemon)' => s = q
      BY <3>1 DEF JobInv, JobAt
    <3>7. SideTypes' /\ RouteInv' /\ told' \subseteq JobRequest
      BY <1>8, <3>1, <3>2 DEF WriteJobs, SideTypes, fleet, home, RouteInv, Synchronizing, JobInv
    <3> QED BY <3>4, <3>5, <3>6, <3>7 DEF JobInv, JobAt
  <2> QED BY <1>8, <2>1, <2>2 DEF WriteJobs
<1>9. ASSUME NEW r \in JobRequest, AnswerJob(r)
      PROVE  SideTypes' /\ JobInv' /\ RouteInv'
  <2>1. /\ jobCalls' \in [JobRequest -> JobCall]
        /\ \A s \in JobRequest \ {r} : jobCalls'[s] = jobCalls[s]
        /\ jobCalls'[r].at = "answered" /\ jobCalls'[r].outcome = jobCalls[r].outcome
        /\ jobCalls[r].at = "saved"
    BY <1>9 DEF AnswerJob, JobGoes, SideTypes, JobCall, JobPlace, JobAt
  <2>2. /\ told' \subseteq JobRequest /\ \A s \in told' : JobAt(s, "answered")'
    BY <1>9, <2>1 DEF AnswerJob, JobInv, JobAt
  <2>3. \A s, q \in JobRequest :
          (JobAt(s, "read") /\ JobAt(q, "read") /\ jobCalls[s].daemon = jobCalls[q].daemon)' => s = q
    BY <2>1 DEF JobInv, JobAt
  <2>4. ~crossed' => \A s \in JobRequest :
          /\ JobAt(s, "read")' => jobCalls'[s].copy = jobFile'
          /\ jobCalls'[s].at \in {"saved", "answered"} => jobFile'[s] = jobCalls'[s].outcome
    BY <1>9, <2>1 DEF AnswerJob, JobInv, JobAt
  <2>5. SideTypes' /\ RouteInv'
    BY <1>9, <2>1 DEF AnswerJob, SideTypes, fleet, home, RouteInv, Synchronizing
  <2> QED BY <2>2, <2>3, <2>4, <2>5 DEF JobInv, JobAt
<1>10. CASE UNCHANGED sidecarVars
  BY <1>10, JobsKept DEF sidecarVars, SideTypes, jobs, RouteInv, Synchronizing
<1> QED BY <1>1, <1>2, <1>3, <1>4, <1>5, <1>6, <1>7, <1>8, <1>9, <1>10 DEF SidecarNext

\* A job whose name a client was given is found with its outcome unless two
\* daemons wrote the file at once, and an available adapter has a route to every
\* node of the last inventory: for any requests, nodes, daemons and restarts.
THEOREM SidecarRemembers == SidecarSpec => []SidecarKeepsPromises
<1>1. SideTypes /\ JobInv /\ RouteInv => SidecarKeepsPromises
  BY DEF JobInv, RouteInv, SidecarKeepsPromises, JobAt
<1>2. SideTypes /\ JobInv /\ RouteInv /\ [SidecarNext]_sidecarVars
        => (SideTypes /\ JobInv /\ RouteInv)'
  BY SideStep
<1> QED BY SideInit, <1>1, <1>2, PTL DEF SidecarSpec

\* The fleet and the registry of one home: what is bound is alive, what is routed
\* is registered, and no request was sent to a daemon yet to come.
FleetInv ==
    /\ supervisor \in {"down", "off", "idle", "starting", "registering"} /\ starts \in 0..MaxStarts
    /\ launched \in 0..MaxDaemons /\ daemons \subseteq 1..launched /\ binding \subseteq daemons
    /\ child \in 0..launched /\ socket \in daemons \cup {0}
    /\ unregistered \subseteq inventory /\ inventory \cup registered \subseteq Node
    /\ routed \subseteq registered
    /\ matterHealth \in {"none", "available", "degraded"} /\ crossed \in BOOLEAN
    /\ \A r \in JobRequest : jobCalls[r].daemon \in 0..launched

LEMMA LaunchFleet ==
  ASSUME FleetInv, Launch
  PROVE  /\ launched' \in launched..MaxDaemons /\ daemons' \subseteq 1..launched'
         /\ binding' \subseteq daemons' /\ child' \in 0..launched' /\ daemons \subseteq daemons'
<1>1. /\ launched \in 0..MaxDaemons /\ daemons \subseteq 1..launched /\ binding \subseteq daemons
      /\ child \in 0..launched
  BY DEF FleetInv
<1>2. CASE UNCHANGED <<launched, daemons, binding, child>>
  BY <1>1, <1>2
<1>3. CASE /\ launched < MaxDaemons /\ launched' = launched + 1
           /\ daemons' = daemons \cup {launched + 1}
           /\ binding' = binding \cup {launched + 1} /\ child' = launched + 1
  BY <1>1, <1>3
<1>. QED  BY <1>2, <1>3 DEF Launch

LEMMA FleetStep ==
  ASSUME SideTypes, FleetInv, [SidecarNext]_sidecarVars
  PROVE  FleetInv'
<1>0. /\ launched \in 0..MaxDaemons /\ socket \in daemons \cup {0} /\ daemons \subseteq 1..launched
      /\ crossed \in BOOLEAN
      /\ \A r \in JobRequest : jobCalls[r].daemon \in 0..launched
  BY DEF FleetInv
<1>1. CASE StartMatter \/ Supervise
  <2>1. Launch /\ UNCHANGED <<socket, jobs>> /\ starts' \in 0..MaxStarts
    BY <1>1 DEF StartMatter, Supervise, FleetInv
  <2>2. /\ launched' \in launched..MaxDaemons /\ daemons' \subseteq 1..launched'
        /\ binding' \subseteq daemons' /\ child' \in 0..launched' /\ daemons \subseteq daemons'
    BY <2>1, LaunchFleet
  <2>3. /\ supervisor' \in {"off", "idle", "starting", "registering"}
        /\ unregistered' \subseteq inventory' /\ inventory' \cup registered' \subseteq Node
        /\ routed' \subseteq registered' /\ matterHealth' \in {"none", "available", "degraded"}
    BY <1>1 DEF StartMatter, Supervise, BeginSynchronize, Degrade, FleetInv
  <2>4. \A r \in JobRequest : jobCalls'[r].daemon \in 0..launched'
    BY <1>0, <2>1, <2>2 DEF jobs
  <2>5. launched' \in 0..MaxDaemons
    BY <1>0, <2>2
  <2>6. socket' \in daemons' \cup {0}
    BY <1>0, <2>1, <2>2
  <2>7. crossed' \in BOOLEAN
    BY <1>0, <2>1 DEF jobs
  <2>. QED  BY <2>1, <2>2, <2>3, <2>4, <2>5, <2>6, <2>7 DEF FleetInv
<1>2. CASE FailSynchronize \/ EndSynchronize \/ \E n \in Node : RegisterNode(n)
  BY <1>2 DEF FailSynchronize, EndSynchronize, RegisterNode, Degrade, FleetInv, fleet, jobs
<1>3. CASE ServerDies
  <2>1. \A r \in JobRequest : jobCalls'[r].daemon \in 0..launched
    BY <1>0, <1>3 DEF ServerDies, SideTypes, JobCall
  <2>. QED  BY <1>3, <2>1 DEF ServerDies, FleetInv, fleet
<1>4. ASSUME NEW g \in daemons, Bind(g) PROVE FleetInv'
  BY <1>4 DEF Bind, FleetInv, home, jobs
<1>5. ASSUME NEW g \in daemons, DaemonDies(g) PROVE FleetInv'
  <2>1. \A r \in JobRequest : jobCalls'[r].daemon \in 0..launched
    BY <1>0, <1>5 DEF DaemonDies, SideTypes, JobCall
  <2>. QED  BY <1>5, <2>1 DEF DaemonDies, FleetInv, home
<1>6. ASSUME NEW r \in JobRequest,
             AskJob(r) \/ Commission(r) \/ ReadJobs(r) \/ WriteJobs(r) \/ AnswerJob(r) \/ TimeOut(r)
      PROVE  FleetInv'
  <2>1. UNCHANGED <<supervisor, starts, fleet, child, unregistered, home>>
    BY <1>6 DEF AskJob, Commission, ReadJobs, WriteJobs, AnswerJob, TimeOut
  <2>2. crossed' \in BOOLEAN
    BY <1>6 DEF AskJob, Commission, ReadJobs, WriteJobs, AnswerJob, TimeOut, FleetInv
  <2>3. jobCalls[r].daemon \in 0..launched /\ socket \in 0..launched
    <3>1. 1..launched \subseteq 0..launched /\ 0 \in 0..launched
      BY <1>0
    <3>. QED  BY <1>0, <3>1
  <2>4. ASSUME NEW s \in JobRequest PROVE jobCalls'[s].daemon \in 0..launched
    <3>1. jobCalls \in [JobRequest -> JobCall]
      BY DEF SideTypes
    <3>2. CASE AskJob(r)
      BY <1>0, <2>3, <3>1, <3>2 DEF AskJob, JobCall
    <3>3. CASE Commission(r) \/ ReadJobs(r) \/ TimeOut(r)
      BY <1>0, <3>1, <3>3 DEF Commission, ReadJobs, TimeOut, JobCall
    <3>4. CASE WriteJobs(r) \/ AnswerJob(r)
      BY <1>0, <3>1, <3>4 DEF WriteJobs, AnswerJob, JobGoes, JobCall
    <3>. QED  BY <1>6, <3>2, <3>3, <3>4
  <2>. QED  BY <2>1, <2>2, <2>4 DEF FleetInv, fleet, home
<1>7. CASE UNCHANGED sidecarVars
  BY <1>7 DEF sidecarVars, FleetInv
<1>. QED  BY <1>1, <1>2, <1>3, <1>4, <1>5, <1>6, <1>7 DEF SidecarNext

\* ensure_matter_sidecar, matterd and the adapter: whoever dies, the socket is one
\* of a daemon that is alive, requests know daemons that were launched, and what
\* is routed is registered.
THEOREM SidecarTypeCorrect == SidecarSpec => []SidecarTypeOK
<1>1. SidecarInit => FleetInv
  <2> SUFFICES ASSUME SidecarInit PROVE FleetInv
    OBVIOUS
  <2>1. \A r \in JobRequest : jobCalls[r].daemon = 0
    BY DEF SidecarInit, NotAsked
  <2>2. 0 \in 0..MaxDaemons /\ 0 \in 0..MaxStarts
    OBVIOUS
  <2>3. launched = 0 /\ child = 0 /\ socket = 0 /\ daemons = {} /\ binding = {} /\ starts = 0
    BY DEF SidecarInit
  <2>4. /\ supervisor = "down" /\ unregistered = {} /\ inventory = {} /\ registered = {}
        /\ routed = {} /\ matterHealth = "none" /\ crossed = FALSE
    BY DEF SidecarInit
  <2>5. 0 \in 0..launched /\ \A r \in JobRequest : jobCalls[r].daemon \in 0..launched
    BY <2>1, <2>3
  <2>. QED  BY <2>2, <2>3, <2>4, <2>5 DEF FleetInv
<1>2. SideTypes /\ JobInv /\ FleetInv => SidecarTypeOK
  <2> SUFFICES ASSUME SideTypes, JobInv, FleetInv PROVE SidecarTypeOK
    OBVIOUS
  <2>1. jobCalls \in [JobRequest -> [at : JobPlace, daemon : 0..launched, outcome : JobStatus,
                                     copy : JobFile, waiting : BOOLEAN]]
    <3>1. ASSUME NEW r \in JobRequest
          PROVE  jobCalls[r] \in [at : JobPlace, daemon : 0..launched, outcome : JobStatus,
                                  copy : JobFile, waiting : BOOLEAN]
      BY DEF SideTypes, JobCall, FleetInv
    <3>. QED  BY <3>1 DEF SideTypes
  <2>. QED  BY <2>1 DEF SideTypes, JobInv, FleetInv, SidecarTypeOK, JobPlace
<1>3. SideTypes /\ JobInv /\ RouteInv /\ FleetInv /\ [SidecarNext]_sidecarVars
        => (SideTypes /\ JobInv /\ RouteInv /\ FleetInv)'
  BY SideStep, FleetStep
<1>. QED  BY SideInit, <1>1, <1>2, <1>3, PTL DEF SidecarSpec

-----------------------------------------------------------------------------
(* Registry. *)

USE RegistryAssumption DEF NoName, Area, Undecided

DeviceRecord == [name : DisplayName, status : Status,
                 entities : UNION {[S -> EntityRecord] : S \in SUBSET Entity}]

Shape ==
    /\ devices \in [Device -> DeviceRecord \cup {NoDevice}]
    /\ entities \in [Entity -> EntityRecord \cup {NoEntity}]
    /\ areas \in Area
    /\ health \in [Adapter -> Health]
    /\ names \in [Device \cup Entity -> DisplayName \cup {NoName}]
    /\ places \in [Entity -> Area \cup {Undecided}]

Told == known = [devices |-> devices, areas |-> areas, health |-> health]

RegistryInv == Shape /\ Told /\ CopiesAgree /\ ChoicesSurvive

-----------------------------------------------------------------------------
(* Facts of one state. *)

LEMMA DeviceFacts ==
  ASSUME Shape, NEW d \in Device
  PROVE  /\ Registered(d) <=> devices[d] \in DeviceRecord
         /\ ~Registered(d) => devices[d] = NoDevice
         /\ NoDevice \notin DeviceRecord
<1>1. NoDevice \notin DeviceRecord
  BY DEF NoDevice, DeviceRecord, Status
<1>. QED  BY <1>1 DEF Shape, Registered

LEMMA EntityFacts ==
  ASSUME Shape, NEW e \in Entity
  PROVE  /\ Stored(e) <=> entities[e] \in EntityRecord
         /\ ~Stored(e) => entities[e].name = NoName /\ entities[e].area = 0
         /\ Stored(e) => entities[e].name # NoName
<1>1. NoEntity \notin EntityRecord
  BY DEF NoEntity, EntityRecord, DisplayName
<1>2. \A r \in EntityRecord : r.name # NoName
  BY DEF EntityRecord, DisplayName
<1>3. Stored(e) <=> entities[e] \in EntityRecord
  BY <1>1 DEF Shape, Stored
<1>4. ~Stored(e) => entities[e].name = NoName /\ entities[e].area = 0
  BY DEF Stored, NoEntity
<1>. QED  BY <1>2, <1>3, <1>4

\* What a device record is made of.
LEMMA DeviceParts ==
  ASSUME NEW device \in DeviceRecord
  PROVE  /\ device.name \in DisplayName /\ device.status \in Status
         /\ DOMAIN device.entities \subseteq Entity
         /\ device.entities \in [DOMAIN device.entities -> EntityRecord]
<1>1. PICK S \in SUBSET Entity : device.entities \in [S -> EntityRecord]
  BY DEF DeviceRecord
<1>. QED  BY <1>1 DEF DeviceRecord

LEMMA EmptyDevice == DOMAIN NoDevice.entities = {}
BY DEF NoDevice

-----------------------------------------------------------------------------
(* The steps. *)

\* Devices whose entities stay as they are still agree with the rows.
LEMMA SameEntities ==
  ASSUME CopiesAgree, NEW D, D = devices',
         \A d \in Device : D[d].entities = devices[d].entities, UNCHANGED entities
  PROVE  CopiesAgree'
BY DEF CopiesAgree, Stored

LEMMA DiscoveryStep ==
  ASSUME RegistryInv, NEW d \in Device, NEW S \in SUBSET {e \in Entity : Owner[e] = d},
         NEW name \in GivenName, RegisterDiscovery(d, S, name)
  PROVE  RegistryInv'
<1>0. Shape /\ Told /\ CopiesAgree /\ ChoicesSurvive
  BY DEF RegistryInv
<1>1. PICK records : records = [e \in S |-> RecordOf(e, name)]
  OBVIOUS
<1>2. PICK device : device = [name |-> IF Registered(d) THEN devices[d].name ELSE name,
                              status |-> "available", entities |-> records]
  OBVIOUS
<1>3. /\ devices' = [devices EXCEPT ![d] = device]
      /\ entities' = [e \in Entity |-> IF e \in S THEN records[e] ELSE entities[e]]
      /\ known' = [known EXCEPT !.devices[d] = device]
      /\ UNCHANGED <<areas, health, names, places>>
  BY <1>1, <1>2 DEF RegisterDiscovery
<1>4. \A e \in S : /\ e \in Entity /\ Owner[e] = d
                   /\ records[e] = IF Stored(e) THEN entities[e] ELSE [name |-> name, area |-> 0]
                   /\ records[e] \in EntityRecord
  BY <1>0, <1>1, EntityFacts DEF RecordOf, EntityRecord, DisplayName
<1>5. records \in [S -> EntityRecord] /\ DOMAIN records = S
  BY <1>1, <1>4
<1>6. device \in DeviceRecord /\ device.entities = records
      /\ device.name = IF Registered(d) THEN devices[d].name ELSE name
  BY <1>0, <1>2, <1>5, DeviceFacts, DeviceParts DEF DeviceRecord, Status, DisplayName
<1>7. /\ devices' \in [Device -> DeviceRecord \cup {NoDevice}]
      /\ devices'[d] = device
      /\ \A c \in Device : c # d => devices'[c] = devices[c]
  BY <1>0, <1>3, <1>6 DEF Shape
<1>8. Shape'
  BY <1>0, <1>3, <1>4, <1>7 DEF Shape
<1>9. Told'
  BY <1>0, <1>3 DEF Told
<1>10. \A e \in Entity : Stored(e) => Stored(e)' /\ entities'[e] = entities[e]
  BY <1>0, <1>3, <1>4 DEF Stored
<1>11. \A e \in S : Stored(e)' /\ entities'[e] = records[e]
  BY <1>3, <1>4, <1>8, EntityFacts DEF Stored, NoEntity, EntityRecord, DisplayName
<1>12. CopiesAgree'
  <2>1. ASSUME NEW c \in Device, NEW e \in DOMAIN devices'[c].entities
        PROVE  Owner[e] = c /\ Stored(e)' /\ devices'[c].entities[e] = entities'[e]
    <3>1. CASE c = d
      BY <1>4, <1>5, <1>6, <1>7, <1>11, <2>1, <3>1
    <3>2. CASE c # d
      <4>1. Owner[e] = c /\ Stored(e) /\ devices[c].entities[e] = entities[e]
            /\ devices'[c].entities[e] = devices[c].entities[e]
        BY <1>0, <1>7, <2>1, <3>2 DEF CopiesAgree
      <4>2. e \in Entity
        BY <1>0, <1>7, <2>1, <3>2, DeviceFacts, DeviceParts, EmptyDevice
      <4>. QED  BY <1>10, <4>1, <4>2
    <3>. QED  BY <3>1, <3>2
  <2>. QED  BY <2>1 DEF CopiesAgree
<1>13. ChoicesSurvive'
  <2>1. ASSUME NEW c \in Device, names'[c] # NoName PROVE devices'[c].name = names'[c]
    <3>1. devices[c].name = names[c] /\ names[c] # NoName
      BY <1>0, <1>3, <2>1 DEF ChoicesSurvive
    <3>2. Registered(c)
      BY <1>0, <3>1 DEF Registered, NoDevice
    <3>. QED  BY <1>3, <1>6, <1>7, <3>1, <3>2
  <2>2. ASSUME NEW e \in Entity
        PROVE  /\ names'[e] # NoName => entities'[e].name = names'[e]
               /\ places'[e] # Undecided => entities'[e].area = places'[e]
    <3>1. /\ names[e] # NoName => entities[e].name = names[e]
          /\ places[e] # Undecided => entities[e].area = places[e]
          /\ names' = names /\ places' = places
      BY <1>0, <1>3 DEF ChoicesSurvive
    <3>2. CASE Stored(e)
      BY <1>10, <3>1, <3>2
    <3>3. CASE ~Stored(e) /\ e \in S
      BY <1>0, <1>4, <1>11, <3>1, <3>3, EntityFacts
    <3>4. CASE ~Stored(e) /\ e \notin S
      BY <1>3, <3>1, <3>4
    <3>. QED  BY <3>2, <3>3, <3>4
  <2>. QED  BY <2>1, <2>2 DEF ChoicesSurvive
<1>. QED  BY <1>8, <1>9, <1>12, <1>13 DEF RegistryInv

LEMMA StatusStep ==
  ASSUME RegistryInv, NEW a \in Adapter, NEW status \in Status, SetAdapterDevicesStatus(a, status)
  PROVE  RegistryInv'
<1>0. Shape /\ Told /\ CopiesAgree /\ ChoicesSurvive
  BY DEF RegistryInv
<1>1. /\ devices' = Marked(a, status)
      /\ known' = [known EXCEPT !.devices = [d \in Device |->
                      IF devices'[d] # devices[d] THEN devices'[d] ELSE known.devices[d]]]
      /\ UNCHANGED <<entities, areas, health, names, places>>
  BY DEF SetAdapterDevicesStatus
<1>2. ASSUME NEW d \in Device
      PROVE  /\ devices'[d] \in DeviceRecord \cup {NoDevice}
             /\ devices'[d].entities = devices[d].entities /\ devices'[d].name = devices[d].name
  <2>1. CASE d \in OfAdapter(a) /\ devices[d].status # "removed"
    <3>1. devices'[d] = [devices[d] EXCEPT !.status = status] /\ devices[d] \in DeviceRecord
      BY <1>0, <1>1, <2>1, DeviceFacts DEF Marked, OfAdapter
    <3>. QED  BY <3>1 DEF DeviceRecord
  <2>2. CASE ~(d \in OfAdapter(a) /\ devices[d].status # "removed")
    BY <1>0, <1>1, <2>2 DEF Marked, Shape
  <2>. QED  BY <2>1, <2>2
<1>3. devices' \in [Device -> DeviceRecord \cup {NoDevice}]
  BY <1>1, <1>2 DEF Marked
<1>4. Shape'
  BY <1>0, <1>1, <1>3 DEF Shape
<1>5. Told'
  <2>1. known.devices = devices
    BY <1>0 DEF Told
  <2>2. \A d \in Device : (IF devices'[d] # devices[d] THEN devices'[d] ELSE known.devices[d])
                             = devices'[d]
    BY <2>1
  <2>3. [d \in Device |-> IF devices'[d] # devices[d] THEN devices'[d] ELSE known.devices[d]]
            = devices'
    BY <1>3, <2>2
  <2>. QED  BY <1>0, <1>1, <2>3 DEF Told
<1>6. CopiesAgree'
  BY <1>0, <1>1, <1>2, SameEntities
<1>7. ChoicesSurvive'
  BY <1>0, <1>1, <1>2 DEF ChoicesSurvive
<1>. QED  BY <1>4, <1>5, <1>6, <1>7 DEF RegistryInv

LEMMA HealthStep ==
  ASSUME RegistryInv, NEW a \in Adapter, NEW status \in Health, UpsertAdapterHealth(a, status)
  PROVE  RegistryInv'
<1>0. Shape /\ Told /\ CopiesAgree /\ ChoicesSurvive
  BY DEF RegistryInv
<1>1. Shape'
  BY <1>0 DEF UpsertAdapterHealth, Shape
<1>2. Told'
  BY <1>0 DEF UpsertAdapterHealth, Told
<1>3. CopiesAgree' /\ ChoicesSurvive'
  BY <1>0 DEF UpsertAdapterHealth, CopiesAgree, ChoicesSurvive, Stored
<1>. QED  BY <1>1, <1>2, <1>3 DEF RegistryInv

LEMMA DeviceStep ==
  ASSUME RegistryInv, NEW d \in Device,
         RemoveDevice(d) \/ \E name \in ChosenName : RenameDevice(d, name)
  PROVE  RegistryInv'
<1>0. Shape /\ Told /\ CopiesAgree /\ ChoicesSurvive
  BY DEF RegistryInv
<1>1. Registered(d) /\ devices[d] \in DeviceRecord
  BY <1>0, DeviceFacts DEF RemoveDevice, RenameDevice
<1>2. PICK device \in DeviceRecord :
        /\ device.entities = devices[d].entities
        /\ devices' = [devices EXCEPT ![d] = device]
        /\ known' = [known EXCEPT !.devices[d] = device]
        /\ \/ names' = names /\ device.name = devices[d].name
           \/ \E name \in ChosenName : names' = [names EXCEPT ![d] = name] /\ device.name = name
        /\ UNCHANGED <<entities, areas, health, places>>
  <2>1. CASE RemoveDevice(d)
    <3>1. PICK device : device = [devices[d] EXCEPT !.status = "removed"]
      OBVIOUS
    <3>2. /\ device \in DeviceRecord /\ device.entities = devices[d].entities
          /\ device.name = devices[d].name
      BY <1>1, <3>1 DEF DeviceRecord, Status
    <3>3. devices' = [devices EXCEPT ![d] = device]
      BY <2>1, <3>1 DEF RemoveDevice
    <3>4. devices'[d] = device
      BY <1>0, <3>3 DEF Shape
    <3>. QED  BY <2>1, <3>2, <3>3, <3>4 DEF RemoveDevice
  <2>2. ASSUME NEW name \in ChosenName, RenameDevice(d, name) 
      PROVE  \E device \in DeviceRecord :
        /\ device.entities = devices[d].entities
        /\ devices' = [devices EXCEPT ![d] = device]
        /\ known' = [known EXCEPT !.devices[d] = device]
        /\ names' = [names EXCEPT ![d] = name] /\ device.name = name
        /\ UNCHANGED <<entities, areas, health, places>>
    <3>1. PICK device : device = [devices[d] EXCEPT !.name = name]
      OBVIOUS
    <3>2. /\ device \in DeviceRecord /\ device.entities = devices[d].entities
          /\ device.name = name
      BY <1>1, <3>1 DEF DeviceRecord, DisplayName
    <3>3. devices' = [devices EXCEPT ![d] = device]
      BY <2>2, <3>1 DEF RenameDevice
    <3>4. devices'[d] = device
      BY <1>0, <3>3 DEF Shape
    <3>. QED  BY <2>2, <3>2, <3>3, <3>4 DEF RenameDevice
  <2>. QED  BY <2>1, <2>2
<1>3. /\ devices' \in [Device -> DeviceRecord \cup {NoDevice}] /\ devices'[d] = device
      /\ \A c \in Device : c # d => devices'[c] = devices[c]
  BY <1>0, <1>2 DEF Shape
<1>4. names' \in [Device \cup Entity -> DisplayName \cup {NoName}]
  BY <1>0, <1>2 DEF Shape, DisplayName
<1>5. Shape'
  BY <1>0, <1>2, <1>3, <1>4 DEF Shape
<1>6. Told'
  BY <1>0, <1>2 DEF Told
<1>7. CopiesAgree'
  BY <1>0, <1>2, <1>3, SameEntities
<1>8. ChoicesSurvive'
  <2>1. \A e \in Entity : names'[e] = names[e]
    BY <1>0, <1>2 DEF Shape
  <2>2. \A c \in Device : c # d => names'[c] = names[c]
    BY <1>0, <1>2 DEF Shape
  <2>3. names'[d] # NoName => device.name = names'[d]
    BY <1>0, <1>2 DEF Shape, ChoicesSurvive
  <2>. QED  BY <1>0, <1>2, <1>3, <2>1, <2>2, <2>3 DEF ChoicesSurvive
<1>. QED  BY <1>5, <1>6, <1>7, <1>8 DEF RegistryInv

\* The entities of S are rewritten in their rows and in their devices.
Rewrite(S) ==
    /\ \A e \in Entity : /\ e \in S => entities'[e] \in EntityRecord
                         /\ e \notin S => entities'[e] = entities[e]
    /\ \A d \in Device :
          /\ DOMAIN devices'[d].entities = DOMAIN devices[d].entities
          /\ \A e \in DOMAIN devices[d].entities :
                devices'[d].entities[e] = IF e \in S THEN entities'[e]
                                                     ELSE devices[d].entities[e]

LEMMA Rewritten ==
  ASSUME Shape, CopiesAgree, NEW S \in SUBSET Entity, Rewrite(S)
  PROVE  CopiesAgree'
<1>1. \A r \in EntityRecord : r # NoEntity
  BY DEF EntityRecord, NoEntity, DisplayName
<1>2. \A d \in Device : DOMAIN devices[d].entities \subseteq Entity
  BY DeviceFacts, DeviceParts, EmptyDevice DEF Shape
<1>. USE DEF Rewrite
<1>3. ASSUME NEW d \in Device, NEW e \in DOMAIN devices'[d].entities
      PROVE  Owner[e] = d /\ Stored(e)' /\ devices'[d].entities[e] = entities'[e]
  <2>1. e \in DOMAIN devices[d].entities /\ e \in Entity
    BY <1>2, <1>3
  <2>2. Owner[e] = d /\ Stored(e) /\ devices[d].entities[e] = entities[e]
    BY <2>1 DEF CopiesAgree
  <2>. QED  BY <1>1, <2>1, <2>2 DEF Stored
<1>. QED  BY <1>3 DEF CopiesAgree

LEMMA RenameEntityStep ==
  ASSUME RegistryInv, NEW e \in Entity, NEW name \in ChosenName, RenameEntity(e, name)
  PROVE  RegistryInv'
<1>0. Shape /\ Told /\ CopiesAgree /\ ChoicesSurvive
  BY DEF RegistryInv
<1>1. PICK o \in Device : o = Owner[e]
  OBVIOUS
<1>2. /\ devices[o] \in DeviceRecord /\ e \in DOMAIN devices[o].entities
      /\ devices[o].entities \in [DOMAIN devices[o].entities -> EntityRecord]
      /\ DOMAIN devices[o].entities \subseteq Entity
  BY <1>0, <1>1, DeviceFacts, DeviceParts DEF RenameEntity, InDevice
<1>3. entities[e] \in EntityRecord
  BY <1>0, <1>1, <1>2, EntityFacts DEF CopiesAgree
<1>4. PICK record : record = [entities[e] EXCEPT !.name = name]
  OBVIOUS
<1>4a. record \in EntityRecord /\ record.name = name /\ record.area = entities[e].area
  BY <1>3, <1>4 DEF EntityRecord, DisplayName
<1>5. /\ entities' = [entities EXCEPT ![e] = record] /\ entities'[e] = record
      /\ entities' \in [Entity -> EntityRecord \cup {NoEntity}]
      /\ \A f \in Entity : f # e => entities'[f] = entities[f]
  BY <1>0, <1>4, <1>4a DEF RenameEntity, Shape
<1>6. PICK device : device = [devices[o] EXCEPT !.entities = [devices[o].entities EXCEPT ![e] = record]]
  OBVIOUS
<1>7. [devices[o].entities EXCEPT ![e] = record] \in [DOMAIN devices[o].entities -> EntityRecord]
  BY <1>2, <1>4a
<1>8. /\ device \in DeviceRecord /\ device.name = devices[o].name
      /\ device.entities = [devices[o].entities EXCEPT ![e] = record]
  BY <1>2, <1>6, <1>7 DEF DeviceRecord
<1>9. devices' = [devices EXCEPT ![o] = device]
  BY <1>1, <1>5, <1>6 DEF RenameEntity
<1>10. /\ devices' \in [Device -> DeviceRecord \cup {NoDevice}] /\ devices'[o] = device
       /\ \A d \in Device : d # o => devices'[d] = devices[d]
  BY <1>0, <1>8, <1>9 DEF Shape
<1>11. known' = [known EXCEPT !.devices[o] = device] /\ names' = [names EXCEPT ![e] = name]
       /\ UNCHANGED <<areas, health, places>>
  BY <1>1, <1>10 DEF RenameEntity
<1>12. Shape'
  <2>1. names' \in [Device \cup Entity -> DisplayName \cup {NoName}]
    BY <1>0, <1>11 DEF Shape, DisplayName
  <2>. QED  BY <1>0, <1>5, <1>10, <1>11, <2>1 DEF Shape
<1>13. Told'
  BY <1>0, <1>9, <1>11 DEF Told
<1>14. CopiesAgree'
  <2>1. ASSUME NEW d \in Device
        PROVE  /\ DOMAIN devices'[d].entities = DOMAIN devices[d].entities
               /\ \A f \in DOMAIN devices[d].entities :
                     devices'[d].entities[f] = IF f \in {e} THEN entities'[f]
                                                            ELSE devices[d].entities[f]
    <3>1. CASE d = o
      BY <1>2, <1>5, <1>8, <1>10, <3>1
    <3>2. CASE d # o
      BY <1>0, <1>1, <1>10, <3>2 DEF CopiesAgree
    <3>. QED  BY <3>1, <3>2
  <2>2. PICK S \in SUBSET Entity : S = {e}
    OBVIOUS
  <2>3. Rewrite(S)
    BY <1>4a, <1>5, <2>1, <2>2 DEF Rewrite
  <2>. QED  BY <1>0, <2>2, <2>3, Rewritten
<1>15. ChoicesSurvive'
  <2>1. /\ names'[e] = name
        /\ \A x \in Device \cup Entity : x # e => names'[x] = names[x]
    BY <1>0, <1>11 DEF Shape
  <2>2. \A d \in Device : d # e /\ devices'[d].name = devices[d].name
    BY <1>8, <1>10
  <2>. QED  BY <1>0, <1>4a, <1>5, <1>11, <2>1, <2>2 DEF ChoicesSurvive
<1>. QED  BY <1>12, <1>13, <1>14, <1>15 DEF RegistryInv

LEMMA AreaStep == RegistryInv /\ CreateArea => RegistryInv'
<1> SUFFICES ASSUME RegistryInv, CreateArea PROVE RegistryInv'
  OBVIOUS
<1>0. Shape /\ Told /\ CopiesAgree /\ ChoicesSurvive
  BY DEF RegistryInv
<1>1. Shape'
  BY <1>0 DEF CreateArea, Shape
<1>2. Told'
  BY <1>0 DEF CreateArea, Told
<1>3. CopiesAgree' /\ ChoicesSurvive'
  BY <1>0 DEF CreateArea, CopiesAgree, ChoicesSurvive, Stored
<1>. QED  BY <1>1, <1>2, <1>3 DEF RegistryInv

LEMMA MoveStep ==
  ASSUME RegistryInv, NEW S \in SUBSET Entity, NEW a \in Area, \A e \in S : InDevice(e),
         areas' \in Area, MoveTo(S, a)
  PROVE  RegistryInv'
<1>0. Shape /\ Told /\ CopiesAgree /\ ChoicesSurvive
  BY DEF RegistryInv
<1> DEFINE moved(e) == [entities[e] EXCEPT !.area = a]
           parts(d) == [e \in DOMAIN devices[d].entities |->
                           IF e \in S /\ Owner[e] = d THEN moved(e) ELSE devices[d].entities[e]]
           with(d) == [devices[d] EXCEPT !.entities = parts(d)]
<1>1. known.devices = devices
  BY <1>0 DEF Told
<1>2. /\ entities' = [e \in Entity |-> IF e \in S THEN moved(e) ELSE entities[e]]
      /\ devices' = [d \in Device |-> with(d)]
      /\ known' = [known EXCEPT !.devices = [d \in Device |-> with(d)], !.areas = areas']
      /\ places' = [e \in Entity |-> IF e \in S THEN a ELSE places[e]]
      /\ UNCHANGED <<health, names>>
  BY <1>1 DEF MoveTo
<1>3. ASSUME NEW e \in S
      PROVE  moved(e) \in EntityRecord /\ moved(e).name = entities[e].name /\ moved(e).area = a
  <2>1. entities[e] \in EntityRecord
    BY <1>0, EntityFacts DEF InDevice, CopiesAgree
  <2>. QED  BY <2>1 DEF EntityRecord
<1>4. ASSUME NEW d \in Device
      PROVE  /\ with(d) \in DeviceRecord \cup {NoDevice}
             /\ with(d).name = devices[d].name
             /\ with(d).entities = parts(d)
  <2>1. CASE devices[d] = NoDevice
    <3>1. parts(d) = [e \in {} |-> NoEntity]
      BY <2>1, EmptyDevice
    <3>. QED  BY <2>1, <3>1 DEF NoDevice
  <2>2. CASE devices[d] \in DeviceRecord
    <3>1. parts(d) \in [DOMAIN devices[d].entities -> EntityRecord]
          /\ DOMAIN devices[d].entities \subseteq Entity
      BY <1>3, <2>2, DeviceParts
    <3>. HIDE DEF parts
    <3>. QED  BY <2>2, <3>1 DEF DeviceRecord
  <2>. QED  BY <1>0, <2>1, <2>2 DEF Shape
<1>. HIDE DEF moved, with
<1>5. devices' \in [Device -> DeviceRecord \cup {NoDevice}] /\ \A d \in Device : devices'[d] = with(d)
  BY <1>2, <1>4
<1>6. /\ entities' \in [Entity -> EntityRecord \cup {NoEntity}]
      /\ \A e \in Entity : entities'[e] = IF e \in S THEN moved(e) ELSE entities[e]
  BY <1>0, <1>2, <1>3 DEF Shape
<1>7. /\ places' \in [Entity -> Area \cup {Undecided}]
      /\ \A e \in Entity : places'[e] = IF e \in S THEN a ELSE places[e]
  BY <1>0, <1>2 DEF Shape
<1>8. Shape'
  BY <1>0, <1>2, <1>5, <1>6, <1>7 DEF Shape
<1>9. Told'
  BY <1>0, <1>2 DEF Told
<1>10. CopiesAgree'
  <2>1. ASSUME NEW d \in Device
        PROVE  /\ DOMAIN devices'[d].entities = DOMAIN devices[d].entities
               /\ \A e \in DOMAIN devices[d].entities :
                     devices'[d].entities[e] = IF e \in S THEN entities'[e]
                                                          ELSE devices[d].entities[e]
    <3>1. devices'[d].entities = parts(d)
      BY <1>4, <1>5
    <3>2. ASSUME NEW e \in DOMAIN devices[d].entities
          PROVE  e \in Entity /\ Owner[e] = d
      BY <1>0, DeviceFacts, DeviceParts, EmptyDevice DEF CopiesAgree, Shape
    <3>. QED  BY <1>6, <3>1, <3>2
  <2>2. Rewrite(S)
    BY <1>3, <1>6, <2>1 DEF Rewrite
  <2>. QED  BY <1>0, <2>2, Rewritten
<1>11. ChoicesSurvive'
  <2>1. \A d \in Device : devices'[d].name = devices[d].name
    BY <1>4, <1>5
  <2>. QED  BY <1>0, <1>2, <1>3, <1>6, <1>7, <2>1 DEF ChoicesSurvive
<1>. QED  BY <1>8, <1>9, <1>10, <1>11 DEF RegistryInv

-----------------------------------------------------------------------------
(* The theorem. *)

LEMMA RegistryInvInit == RegistryInit => RegistryInv
<1> SUFFICES ASSUME RegistryInit PROVE RegistryInv
  OBVIOUS
<1>1. Shape
  BY DEF RegistryInit, Shape, Health
<1>2. Told
  BY DEF RegistryInit, Told
<1>3. CopiesAgree
  BY EmptyDevice DEF RegistryInit, CopiesAgree
<1>4. ChoicesSurvive
  BY DEF RegistryInit, ChoicesSurvive
<1>. QED  BY <1>1, <1>2, <1>3, <1>4 DEF RegistryInv

LEMMA RegistryInvStep == RegistryInv /\ [RegistryNext]_registryVars => RegistryInv'
<1> SUFFICES ASSUME RegistryInv, [RegistryNext]_registryVars PROVE RegistryInv'
  OBVIOUS
<1>1. ASSUME NEW d \in Device, NEW S \in SUBSET {e \in Entity : Owner[e] = d},
             NEW name \in GivenName, RegisterDiscovery(d, S, name)
      PROVE  RegistryInv'
  BY <1>1, DiscoveryStep
<1>2. ASSUME NEW d \in Device,
             RemoveDevice(d) \/ \E name \in ChosenName : RenameDevice(d, name)
      PROVE  RegistryInv'
  BY <1>2, DeviceStep
<1>3. ASSUME NEW a \in Adapter, NEW status \in Status, SetAdapterDevicesStatus(a, status)
      PROVE  RegistryInv'
  BY <1>3, StatusStep
<1>4. ASSUME NEW a \in Adapter, NEW status \in HealthReport, UpsertAdapterHealth(a, status)
      PROVE  RegistryInv'
  <2>1. status \in Health
    BY DEF Health
  <2>. QED  BY <1>4, <2>1, HealthStep
<1>5. ASSUME NEW e \in Entity, NEW name \in ChosenName, RenameEntity(e, name) PROVE RegistryInv'
  BY <1>5, RenameEntityStep
<1>6. ASSUME NEW e \in Entity, NEW a \in Area, AssignEntityArea(e, a) PROVE RegistryInv'
  <2>1. areas \in Area
    BY DEF RegistryInv, Shape
  <2>2. /\ {e} \in SUBSET Entity /\ \A f \in {e} : InDevice(f)
        /\ areas' \in Area /\ MoveTo({e}, a)
    BY <1>6, <2>1 DEF AssignEntityArea
  <2>. QED  BY <2>2, MoveStep
<1>7. CASE CreateArea
  BY <1>7, AreaStep
<1>8. ASSUME NEW S \in SUBSET Entity, CreateAreaWithEntities(S) PROVE RegistryInv'
  <2>1. areas \in Area
    BY DEF RegistryInv, Shape
  <2>2. PICK a \in Area : a = areas + 1
    BY <1>8, <2>1 DEF CreateAreaWithEntities
  <2>3. (\A f \in S : InDevice(f)) /\ areas' \in Area /\ MoveTo(S, a)
    BY <1>8, <2>2 DEF CreateAreaWithEntities
  <2>. QED  BY <2>3, MoveStep
<1>9. CASE UNCHANGED registryVars
  BY <1>9 DEF registryVars, RegistryInv, Shape, Told, CopiesAgree, ChoicesSurvive, Stored
<1>. QED  BY <1>1, <1>2, <1>3, <1>4, <1>5, <1>6, <1>7, <1>8, <1>9 DEF RegistryNext

\* register_discovery, the renames, areas and statuses: in whatever order they
\* come, the events of the registry add up to what its tables hold, the two
\* records of an entity agree, and the choices of the user stay.
THEOREM RegistryIsExplained == RegistrySpec => []JournalExplainsRegistry
<1>1. RegistryInv => JournalExplainsRegistry
  BY DEF RegistryInv, Told, JournalExplainsRegistry
<1>. QED  BY RegistryInvInit, RegistryInvStep, <1>1, PTL DEF RegistrySpec
-----------------------------------------------------------------------------
(* HueSupervisor. *)

\* Records of devices and entities, areas, health and the client's picture of them
\* keep their types.
THEOREM RegistryTypeCorrect == RegistrySpec => []RegistryTypeOK
<1>1. ASSUME RegistryInv PROVE RegistryTypeOK
  <2>0. Shape /\ Told
    BY <1>1 DEF RegistryInv
  <2>1. ASSUME NEW d \in Device PROVE DeviceOK(devices[d])
    <3>1. CASE devices[d] = NoDevice
      BY <3>1 DEF DeviceOK
    <3>2. CASE devices[d] \in DeviceRecord
      <4>1. PICK device \in DeviceRecord : device = devices[d]
        BY <3>2
      <4>2. DeviceOK(device)
        BY DeviceParts DEF DeviceOK
      <4>. QED  BY <4>1, <4>2
    <3>. QED  BY <2>0, <3>1, <3>2 DEF Shape
  <2>2. known.devices = devices /\ known.areas = areas /\ known.health = health
    BY <2>0 DEF Told
  <2>. QED  BY <2>0, <2>1, <2>2 DEF Shape, RegistryTypeOK
<1>. QED  BY <1>1, RegistryInvInit, RegistryInvStep, PTL DEF RegistrySpec

USE SupervisorAssumption

\* What the thread registers belongs to a synchronisation of its own, during
\* which it does not wait.
WorkInv ==
    /\ todo \in [Worker -> [at : {"idle", "registering"}, lights : SUBSET Lights]]
    /\ listener \notin {"starting", "syncing"} => todo["thread"] = NotWorking

SupervisorInv == RegistryInv /\ WorkInv /\ WaitingMeansUnavailable

LEMMA NoWork ==
  /\ NotWorking \in [at : {"idle", "registering"}, lights : SUBSET Lights]
  /\ \A S \in SUBSET Lights :
        Synchronising(S) \in [at : {"idle", "registering"}, lights : SUBSET Lights]
BY DEF NotWorking, Synchronising

LEMMA SupervisorInvInit == RegistryInit /\ SupervisorInit => SupervisorInv
<1> SUFFICES ASSUME RegistryInit, SupervisorInit PROVE SupervisorInv
  OBVIOUS
<1>1. WorkInv
  BY NoWork DEF SupervisorInit, WorkInv, Worker
<1>2. WaitingMeansUnavailable
  BY DEF SupervisorInit, WaitingMeansUnavailable
<1>. QED  BY <1>1, <1>2, RegistryInvInit DEF SupervisorInv

\* The registry stays as it is, and the thread does not come to wait.
LEMMA OnlyWork ==
  ASSUME SupervisorInv, WorkInv', UNCHANGED registryVars,
         \/ listener' \notin {"marked", "waiting"}
         \/ listener' = listener /\ disturbed' = disturbed
         \/ disturbed'
         \/ listener = "marked" /\ disturbed' = disturbed
  PROVE  SupervisorInv'
<1>1. RegistryInv'
  BY DEF SupervisorInv, registryVars, RegistryInv, Shape, Told, CopiesAgree, ChoicesSurvive, Stored
<1>2. WaitingMeansUnavailable'
  BY DEF SupervisorInv, registryVars, WaitingMeansUnavailable, OfAdapter, Registered
<1>. QED  BY <1>1, <1>2 DEF SupervisorInv

LEMMA RegisterLightStep ==
  ASSUME SupervisorInv, NEW w \in Worker, NEW d \in Lights, NEW name \in GivenName,
         RegisterLightOf(w, d, name)
  PROVE  SupervisorInv'
<1>1. WorkInv /\ d \in Device /\ d \in todo[w].lights
  BY DEF SupervisorInv, Lights, RegisterLightOf
<1>2. PICK S \in SUBSET {e \in Entity : Owner[e] = d} : RegisterDiscovery(d, S, name)
  BY DEF RegisterLightOf
<1>3. RegistryInv'
  BY <1>1, <1>2, DiscoveryStep DEF SupervisorInv
<1>4. todo[w] # NotWorking
  BY <1>1 DEF NotWorking
<1>5. /\ todo' = [todo EXCEPT ![w] = [todo[w] EXCEPT !.lights = todo[w].lights \ {d}]]
      /\ listener' = listener /\ (w = "administrator" => disturbed')
  BY DEF RegisterLightOf
<1>6. [todo[w] EXCEPT !.lights = todo[w].lights \ {d}]
        \in [at : {"idle", "registering"}, lights : SUBSET Lights]
  BY <1>1 DEF WorkInv
<1>7. w = "thread" => listener \in {"starting", "syncing"}
  BY <1>1, <1>4 DEF WorkInv
<1>8. WorkInv'
  BY <1>1, <1>5, <1>6, <1>7 DEF WorkInv, Worker
<1>9. WaitingMeansUnavailable'
  BY <1>5, <1>7 DEF WaitingMeansUnavailable, Worker
<1>. QED  BY <1>3, <1>8, <1>9 DEF SupervisorInv

\* mark_event_stream_disconnected finds every light of the bridge, whatever the
\* synchronisations registered before.
LEMMA MarkStep == SupervisorInv /\ MarkDevices => SupervisorInv'
<1> SUFFICES ASSUME SupervisorInv, MarkDevices PROVE SupervisorInv'
  OBVIOUS
<1>1. WorkInv'
  BY DEF SupervisorInv, MarkDevices, WorkInv
<1>2. CASE SetAdapterDevicesStatus(Bridge, "unavailable")
  <2>1. "unavailable" \in Status
    BY DEF Status
  <2>2. RegistryInv'
    BY <1>2, <2>1, StatusStep DEF SupervisorInv
  <2>3. devices' = Marked(Bridge, "unavailable") /\ Shape
    BY <1>2 DEF SetAdapterDevicesStatus, SupervisorInv, RegistryInv
  <2>4. ASSUME NEW d \in OfAdapter(Bridge)' PROVE devices'[d].status # "available"
    <3>1. d \in Device /\ AdapterOf[d] = Bridge /\ devices'[d] # NoDevice
      BY DEF OfAdapter, Registered
    <3>2. d \in OfAdapter(Bridge) /\ devices[d] \in DeviceRecord
      BY <2>3, <3>1, DeviceFacts DEF Marked, OfAdapter, Registered
    <3>3. CASE devices[d].status = "removed"
      BY <2>3, <3>1, <3>3 DEF Marked
    <3>4. CASE devices[d].status # "removed"
      <4>1. devices'[d] = [devices[d] EXCEPT !.status = "unavailable"]
        BY <2>3, <3>1, <3>2, <3>4 DEF Marked
      <4>. QED  BY <3>2, <4>1 DEF DeviceRecord
    <3>. QED  BY <3>3, <3>4
  <2>5. WaitingMeansUnavailable'
    BY <2>4 DEF WaitingMeansUnavailable
  <2>. QED  BY <1>1, <2>2, <2>5 DEF SupervisorInv
<1>3. CASE UNCHANGED registryVars /\ disturbed' = TRUE
  BY <1>1, <1>3, OnlyWork
<1>. QED  BY <1>2, <1>3 DEF MarkDevices

\* What an adapter reports of itself changes no device.
LEMMA HealthOnly ==
  ASSUME SupervisorInv, WorkInv', NEW status \in Health, UpsertAdapterHealth(Bridge, status),
         \/ listener' \notin {"marked", "waiting"}
         \/ listener' = listener /\ disturbed' = disturbed
         \/ listener = "marked" /\ disturbed' = disturbed
  PROVE  SupervisorInv'
<1>1. RegistryInv'
  BY HealthStep DEF SupervisorInv
<1>2. WaitingMeansUnavailable'
  BY DEF SupervisorInv, WaitingMeansUnavailable, UpsertAdapterHealth, OfAdapter, Registered
<1>. QED  BY <1>1, <1>2 DEF SupervisorInv

LEMMA RemovalStep ==
  ASSUME SupervisorInv, NEW d \in Lights, RemoveDevice(d), UNCHANGED supervisorVars
  PROVE  SupervisorInv'
<1>1. d \in Device /\ Registered(d) /\ Shape
  BY DEF Lights, RemoveDevice, SupervisorInv, RegistryInv
<1>2. RegistryInv'
  BY <1>1, DeviceStep DEF SupervisorInv
<1>3. WorkInv'
  BY DEF SupervisorInv, supervisorVars, WorkInv
<1>4. devices[d] \in DeviceRecord
  BY <1>1, DeviceFacts
<1>5. devices'[d].status = "removed" /\ \A c \in Device : c # d => devices'[c] = devices[c]
  BY <1>1, <1>4 DEF RemoveDevice, Shape, DeviceRecord
<1>6. WaitingMeansUnavailable'
  BY <1>1, <1>5 DEF SupervisorInv, supervisorVars, WaitingMeansUnavailable, OfAdapter, Registered
<1>. QED  BY <1>2, <1>3, <1>6 DEF SupervisorInv

LEMMA SupervisorInvStep ==
  SupervisorInv /\ [SupervisorNext]_<<registryVars, supervisorVars>> => SupervisorInv'
<1> SUFFICES ASSUME SupervisorInv, [SupervisorNext]_<<registryVars, supervisorVars>>
             PROVE  SupervisorInv'
  OBVIOUS
<1>0. WorkInv
  BY DEF SupervisorInv
<1>1. ASSUME NEW S \in SUBSET Lights,
             StartBridge(S) \/ AdministratorSynchronises(S) \/ Resume(S)
      PROVE  SupervisorInv'
  <2>1. CASE StartBridge(S)
    <3>1. WorkInv'
      BY <1>0, <2>1, NoWork DEF StartBridge, WorkInv, Worker
    <3>. QED  BY <2>1, <3>1, OnlyWork DEF StartBridge
  <2>2. CASE AdministratorSynchronises(S)
    <3>1. WorkInv'
      BY <1>0, <2>2, NoWork DEF AdministratorSynchronises, WorkInv, Worker
    <3>. QED  BY <2>2, <3>1, OnlyWork DEF AdministratorSynchronises
  <2>3. CASE Resume(S)
    <3>1. WorkInv'
      BY <1>0, <2>3, NoWork DEF Resume, WorkInv, Worker
    <3>. QED  BY <2>3, <3>1, OnlyWork DEF Resume
  <2>. QED  BY <1>1, <2>1, <2>2, <2>3
<1>2. ASSUME NEW w \in Worker, NEW d \in Lights, NEW name \in GivenName,
             RegisterLightOf(w, d, name)
      PROVE  SupervisorInv'
  BY <1>2, RegisterLightStep
<1>3. ASSUME NEW w \in Worker, FinishSynchronisation(w) PROVE SupervisorInv'
  <2>1. WorkInv'
    BY <1>0, <1>3, NoWork DEF FinishSynchronisation, WorkInv, Worker
  <2>2. "available" \in Health
    BY DEF Health
  <2>3. \/ listener' \in {"listening", "off"} 
        \/ listener' = listener /\ disturbed' = disturbed
    BY <1>3 DEF FinishSynchronisation
  <2>. QED  BY <1>3, <2>1, <2>2, <2>3, HealthOnly DEF FinishSynchronisation
<1>4. ASSUME NEW w \in Worker, FailSynchronisation(w) PROVE SupervisorInv'
  <2>1. WorkInv'
    BY <1>0, <1>4, NoWork DEF FailSynchronisation, WorkInv, Worker
  <2>2. \/ listener' \in {"lost", "off"}
        \/ listener' = listener /\ disturbed' = disturbed
    BY <1>4 DEF FailSynchronisation
  <2>. QED  BY <1>4, <2>1, <2>2, OnlyWork DEF FailSynchronisation
<1>5. CASE LoseStream
  <2>1. WorkInv'
    BY <1>0, <1>5 DEF LoseStream, WorkInv
  <2>. QED  BY <1>5, <2>1, OnlyWork DEF LoseStream
<1>6. CASE MarkDevices
  BY <1>6, MarkStep
<1>7. CASE MarkHealth
  <2>1. WorkInv'
    BY <1>0, <1>7 DEF MarkHealth, WorkInv
  <2>2. "degraded" \in Health
    BY DEF Health
  <2>. QED  BY <1>7, <2>1, <2>2, HealthOnly, OnlyWork DEF MarkHealth
<1>8. CASE ResumeInVain
  <2>1. WorkInv'
    BY <1>0, <1>8 DEF ResumeInVain, WorkInv
  <2>. QED  BY <1>8, <2>1, OnlyWork DEF ResumeInVain
<1>9. CASE SupervisorCrash
  <2>1. WorkInv'
    BY <1>9, NoWork DEF SupervisorCrash, WorkInv, Worker
  <2>. QED  BY <1>9, <2>1, OnlyWork DEF SupervisorCrash
<1>10. ASSUME NEW d \in Lights, RemoveDevice(d), UNCHANGED supervisorVars PROVE SupervisorInv'
  BY <1>10, RemovalStep
<1>11. CASE UNCHANGED <<registryVars, supervisorVars>>
  <2>1. WorkInv'
    BY <1>0, <1>11 DEF supervisorVars, WorkInv
  <2>2. listener' = listener /\ disturbed' = disturbed /\ UNCHANGED registryVars
    BY <1>11 DEF supervisorVars
  <2>. QED  BY <2>1, <2>2, OnlyWork
<1>. QED  BY <1>1, <1>2, <1>3, <1>4, <1>5, <1>6, <1>7, <1>8, <1>9, <1>10, <1>11 DEF SupervisorNext

\* run_event_stream_supervisor and mark_event_stream_disconnected: however many
\* lights were registered, removed or registered again by whatever part of a
\* synchronisation took place, and however often the stream was lost, none is
\* available while the thread waits, unless a mark failed or the administrator
\* has synchronised since.
THEOREM WaitingIsUnavailable == SupervisorSpec => []WaitingMeansUnavailable
<1>1. SupervisorInv => WaitingMeansUnavailable
  BY DEF SupervisorInv
<1>. QED  BY SupervisorInvInit, SupervisorInvStep, <1>1, PTL DEF SupervisorSpec

LEMMA CountedFailure ==
  ASSUME NEW n \in 0..Saturation
  PROVE  Increment(n) \in 1..Saturation
BY DEF Increment, AtMost

\* A stream that was lost has been counted when the delay is computed.
CountInv ==
    /\ SupervisorTypeOK
    /\ listener \in {"lost", "marked"} => failures >= 1

LEMMA CountInvInit == SupervisorInit => CountInv
<1> SUFFICES ASSUME SupervisorInit PROVE CountInv
  OBVIOUS
<1>1. todo \in [Worker -> [at : {"idle", "registering"}, lights : SUBSET Lights]]
  BY NoWork DEF SupervisorInit
<1>2. 0 \in 0..Saturation /\ 0 \in 0..MaxLosses
  BY DEF SupervisorAssumption
<1>. QED  BY <1>1, <1>2 DEF SupervisorInit, CountInv, SupervisorTypeOK

LEMMA CountInvStep ==
  SupervisorInv /\ CountInv /\ [SupervisorNext]_<<registryVars, supervisorVars>> => CountInv'
<1> SUFFICES ASSUME WorkInv, CountInv, [SupervisorNext]_<<registryVars, supervisorVars>>
             PROVE  CountInv'
  BY DEF SupervisorInv
<1>0. SupervisorTypeOK
  BY DEF CountInv
<1>1. ASSUME NEW S \in SUBSET Lights,
             StartBridge(S) \/ AdministratorSynchronises(S) \/ Resume(S)
      PROVE  CountInv'
  <2>1. Synchronising(S) \in [at : {"idle", "registering"}, lights : SUBSET Lights]
    BY NoWork
  <2>2. CASE StartBridge(S)
    BY <1>0, <2>1, <2>2 DEF StartBridge, CountInv, SupervisorTypeOK, Worker
  <2>3. CASE AdministratorSynchronises(S)
    BY <1>0, <2>1, <2>3 DEF AdministratorSynchronises, CountInv, SupervisorTypeOK, Worker
  <2>4. CASE Resume(S)
    BY <1>0, <2>1, <2>4 DEF Resume, CountInv, SupervisorTypeOK, Worker
  <2>. QED  BY <1>1, <2>2, <2>3, <2>4
<1>2. ASSUME NEW w \in Worker, NEW d \in Lights, NEW name \in GivenName,
             RegisterLightOf(w, d, name)
      PROVE  CountInv'
  <2>1. todo' \in [Worker -> [at : {"idle", "registering"}, lights : SUBSET Lights]]
    BY <1>0, <1>2 DEF RegisterLightOf, SupervisorTypeOK
  <2>2. disturbed' \in BOOLEAN
    BY <1>2, Zenon DEF RegisterLightOf
  <2>. QED  BY <1>0, <1>2, <2>1, <2>2 DEF RegisterLightOf, CountInv, SupervisorTypeOK
<1>3. ASSUME NEW w \in Worker, FinishSynchronisation(w) PROVE CountInv'
  <2>1. todo' \in [Worker -> [at : {"idle", "registering"}, lights : SUBSET Lights]]
    BY <1>0, <1>3, NoWork DEF FinishSynchronisation, SupervisorTypeOK
  <2>2. w = "thread" => listener \in {"starting", "syncing"}
    BY <1>3 DEF FinishSynchronisation, WorkInv, Working, NotWorking
  <2>. QED  BY <1>0, <1>3, <2>1, <2>2 DEF FinishSynchronisation, CountInv, SupervisorTypeOK
<1>4. ASSUME NEW w \in Worker, FailSynchronisation(w) PROVE CountInv'
  <2>1. todo' \in [Worker -> [at : {"idle", "registering"}, lights : SUBSET Lights]]
    BY <1>0, <1>4, NoWork DEF FailSynchronisation, SupervisorTypeOK
  <2>2. w = "thread" => listener \in {"starting", "syncing"}
    BY <1>4 DEF FailSynchronisation, WorkInv, Working, NotWorking
  <2>3. Increment(failures) \in 1..Saturation
    BY <1>0, CountedFailure DEF SupervisorTypeOK
  <2>. QED  BY <1>0, <1>4, <2>1, <2>2, <2>3 DEF FailSynchronisation, CountInv, SupervisorTypeOK
<1>5. CASE LoseStream
  <2>1. Increment(failures) \in 1..Saturation
    BY <1>0, CountedFailure DEF SupervisorTypeOK
  <2>. QED  BY <1>0, <1>5, <2>1 DEF LoseStream, CountInv, SupervisorTypeOK
<1>6. CASE MarkDevices \/ MarkHealth
  <2>1. failures \in Nat \ {0}
    BY <1>0, <1>6 DEF MarkDevices, MarkHealth, CountInv, SupervisorTypeOK
  <2>2. Delays(failures) \subseteq Initial..Maximum
    BY <2>1, DelayBounds
  <2>. QED  BY <1>0, <1>6, <2>2 DEF MarkDevices, MarkHealth, CountInv, SupervisorTypeOK
<1>7. CASE ResumeInVain
  <2>1. Increment(failures) \in 1..Saturation
    BY <1>0, CountedFailure DEF SupervisorTypeOK
  <2>. QED  BY <1>0, <1>7, <2>1 DEF ResumeInVain, CountInv, SupervisorTypeOK
<1>8. CASE SupervisorCrash
  <2>1. todo' \in [Worker -> [at : {"idle", "registering"}, lights : SUBSET Lights]]
    BY <1>8, NoWork DEF SupervisorCrash
  <2>2. 0 \in 0..Saturation
    BY DEF SupervisorAssumption
  <2>. QED  BY <1>0, <1>8, <2>1, <2>2 DEF SupervisorCrash, CountInv, SupervisorTypeOK
<1>9. CASE UNCHANGED supervisorVars
  BY <1>9 DEF supervisorVars, CountInv, SupervisorTypeOK
<1>. QED  BY <1>1, <1>2, <1>3, <1>4, <1>5, <1>6, <1>7, <1>8, <1>9 DEF SupervisorNext

\* HueReconnectBackoff::delay and the loop around it: however often the bridge was
\* lost, the thread waits at least the initial delay and, entropy included, never
\* more than the maximum; the counter saturates, and no delay is left over when the
\* thread no longer waits.
THEOREM SupervisorTypeCorrect == SupervisorSpec => []SupervisorTypeOK
<1>1. CountInv => SupervisorTypeOK
  BY DEF CountInv
<1>. QED
  BY SupervisorInvInit, SupervisorInvStep, CountInvInit, CountInvStep, <1>1, PTL DEF SupervisorSpec

-----------------------------------------------------------------------------
(* MqttIngest. *)

USE MqttAssumption DEF Discovery, Nothing, Unreadable

Queued(m) == \E i \in 1..Len(queue) : queue[i] = m

\* What the topic last said is in the queue, and nothing of the topic behind it.
Upcoming(t) ==
    \E i \in 1..Len(queue) :
        /\ queue[i] = State(t, said[t])
        /\ \A j \in 1..Len(queue) : j > i => \A v \in Payload : queue[j] # State(t, v)

Mentioned(t) == \E i \in 1..Len(queue) : \E v \in Payload : queue[i] = State(t, v)

Handled(c) ==
    /\ Registered(c.device)
    /\ \A e \in ToSet(c.components) : Alone(e) => stateRoutes[StateTopic[e]] = e

MqttTypes ==
    /\ configs \in [Device -> Announcement \cup {NoConfig}]
    /\ \A d \in Device : configs[d] # NoConfig => configs[d].device = d
    /\ said \in [Topic -> Payload \cup {Nothing}]
    /\ queue \in Seq(Message)
    /\ stateRoutes \in [Topic -> Entity \cup {Nothing}]
    /\ reported \in [Entity -> Readable \cup {Nothing}]
    /\ lost \in BOOLEAN
    /\ asked \subseteq Topic \cup {Discovery}

\* A process that has missed nothing hears announcements, and the topic of each
\* route.
HeardInv ==
    /\ ~lost => Discovery \in asked \cup subscriptions
    /\ \A t \in Topic : stateRoutes[t] # Nothing =>
          /\ StateTopic[stateRoutes[t]] = t
          /\ ~lost => t \in asked \cup subscriptions

\* What the broker retains is under way or has been taken.
AnnouncedInv ==
    ~lost /\ Discovery \in subscriptions =>
        \A c \in Announcement : c.sound /\ configs[c.device] = c =>
            Queued(Config(c)) \/ Handled(c)

\* A topic that is in the queue is heard to the end.
OrderInv == ~lost => \A t \in Topic : Mentioned(t) => t \in subscriptions /\ Upcoming(t)

\* A route shows what its topic last said, or is about to.
ShownInv ==
    ~lost => \A t \in Topic :
        stateRoutes[t] # Nothing /\ t \notin asked /\ said[t] \in Readable =>
            reported[stateRoutes[t]] = said[t] \/ Upcoming(t)

IngestInv == MqttTypes /\ HeardInv /\ AnnouncedInv /\ OrderInv /\ ShownInv
MqttInv == RegistryInv /\ IngestInv

-----------------------------------------------------------------------------
(* Messages. *)

\* Sequences that list a finite set list all of it, each element once.
LEMMA Listing ==
  ASSUME NEW S, IsFiniteSet(S), NEW s \in SetToSeqs(S)
  PROVE  /\ s \in Seq(S) /\ ToSet(s) = S
         /\ \A i \in 1..Len(s), j \in 1..Len(s) : s[i] = s[j] => i = j
<1>1. PICK n \in Nat : n = Cardinality(S)
  BY FS_CardinalityType
<1>2. s \in [1..n -> S] /\ \A i, j \in 1..n : i # j => s[i] # s[j]
  BY <1>1 DEF SetToSeqs
<1>3. s \in Seq(S) /\ Len(s) = n
  BY <1>2
<1>4. IsFiniteSet(1..n) /\ Cardinality(1..n) = n
  <2>1. 1 \in Int /\ n \in Int
    OBVIOUS
  <2>2. IsFiniteSet(1..n) /\ Cardinality(1..n) = IF 1 > n THEN 0 ELSE n - 1 + 1
    BY <2>1, FS_Interval
  <2>. QED  BY <2>2
<1>5. s \in Injection(1..n, S)
  BY <1>2 DEF Injection, IsInjective
<1>6. s \in Surjection(1..n, S)
  BY <1>1, <1>4, <1>5, FS_Injection
<1>7. \A x \in S : \E i \in 1..n : s[i] = x
  BY <1>6 DEF Surjection
<1>. QED  BY <1>2, <1>3, <1>7 DEF ToSet

LEMMA AnnouncementParts ==
  ASSUME NEW c \in Announcement
  PROVE  /\ c.device \in Device /\ c.sound \in BOOLEAN
         /\ c.components \in Seq({e \in Entity : Owner[e] = c.device})
         /\ DOMAIN c.components = 1..Len(c.components)
         /\ ToSet(c.components) \in SUBSET {e \in Entity : Owner[e] = c.device}
         /\ c # NoConfig
<1>1. PICK d \in Device : c \in [device : {d}, sound : BOOLEAN,
          components : {s \in SetToAllKPermutations({e \in Entity : Owner[e] = d}) : s # <<>>}]
  BY DEF Announcement
<1>2. c.components \in SetToAllKPermutations({e \in Entity : Owner[e] = d})
  BY <1>1
<1>3. PICK T \in SUBSET {e \in Entity : Owner[e] = d} : c.components \in SetToSeqs(T)
  BY <1>2 DEF SetToAllKPermutations
<1>4. IsFiniteSet(T)
  BY FS_Subset
<1>5. c.components \in Seq(T)
  BY <1>3, <1>4, Listing
<1>6. c.components \in Seq({e \in Entity : Owner[e] = d})
  BY <1>5
<1>7. c.components # <<>> /\ c.device = d /\ c.sound \in BOOLEAN
  BY <1>1
<1>. QED  BY <1>6, <1>7 DEF ToSet, NoConfig

LEMMA MessageFacts ==
  /\ \A c \in Announcement : Config(c) \in Message
  /\ \A t \in Topic \cup {Discovery}, v \in Payload : State(t, v) \in Message
  /\ \A c, t, v : Config(c) # State(t, v)
  /\ \A c1, c2 : Config(c1) = Config(c2) => c1 = c2
  /\ \A t, v, u, w : State(t, v) = State(u, w) => t = u /\ v = w
<1>1. \A c \in Announcement : Config(c) \in Message
  BY DEF Message
<1>2. \A t \in Topic \cup {Discovery}, v \in Payload : State(t, v) \in Message
  BY DEF Message
<1>3. \A c, t, v : Config(c) # State(t, v)
  BY DEF Config, State
<1>4. \A c1, c2 : Config(c1) = Config(c2) => c1 = c2
  <2> SUFFICES ASSUME NEW c1, NEW c2, Config(c1) = Config(c2) PROVE c1 = c2
    OBVIOUS
  <2>1. Config(c1).config = c1 /\ Config(c2).config = c2
    BY DEF Config
  <2>. QED  BY <2>1
<1>5. \A t, v, u, w : State(t, v) = State(u, w) => t = u /\ v = w
  <2> SUFFICES ASSUME NEW t, NEW v, NEW u, NEW w, State(t, v) = State(u, w)
               PROVE  t = u /\ v = w
    OBVIOUS
  <2>1. State(t, v).topic = t /\ State(u, w).topic = u
        /\ State(t, v).payload = v /\ State(u, w).payload = w
    BY DEF State
  <2>. QED  BY <2>1
<1>. QED  BY <1>1, <1>2, <1>3, <1>4, <1>5

LEMMA SingleMessage ==
  ASSUME NEW message \in Message
  PROVE  \E one \in Seq(Message) : one = <<message>> /\ Len(one) = 1 /\ one[1] = message
<1>1. <<message>> \in Seq(Message) /\ Len(<<message>>) = 1 /\ <<message>>[1] = message
  OBVIOUS
<1>. QED  BY <1>1

\* Messages are delivered behind those that wait, all of them or the process has
\* missed some.
LEMMA Delivered ==
  ASSUME MqttTypes, NEW messages \in Seq(Message), Deliver(messages)
  PROVE  /\ queue' \in Seq(Message) /\ lost' \in BOOLEAN
         /\ ~lost' => ~lost /\ Len(queue') = Len(queue) + Len(messages)
         /\ ~lost' => \A i \in 1..Len(queue) : i \in 1..Len(queue') /\ queue'[i] = queue[i]
         /\ ~lost' => \A i \in 1..Len(messages) : /\ Len(queue) + i \in 1..Len(queue')
                                                  /\ queue'[Len(queue) + i] = messages[i]
<1>1. queue \in Seq(Message)
  BY DEF MqttTypes
<1>2. LeastOf(Len(messages), QueueLimit - Len(queue)) \in Int
      /\ LeastOf(Len(messages), QueueLimit - Len(queue)) <= Len(messages)
  BY <1>1 DEF LeastOf
<1>3. Fitting(messages) \in Seq(Message)
  BY <1>2 DEF Fitting
<1>4. queue' = queue \o Fitting(messages) /\ queue' \in Seq(Message)
  BY <1>1, <1>3 DEF Deliver
<1>5. lost' \in BOOLEAN /\ (~lost' => ~lost /\ Fitting(messages) = messages)
  BY DEF Deliver, MqttTypes
<1>6. ASSUME ~lost' 
      PROVE  /\ Len(queue') = Len(queue) + Len(messages)
             /\ \A i \in 1..Len(queue) : i \in 1..Len(queue') /\ queue'[i] = queue[i]
             /\ \A i \in 1..Len(messages) : /\ Len(queue) + i \in 1..Len(queue')
                                            /\ queue'[Len(queue) + i] = messages[i]
  <2>1. queue' = queue \o messages
    BY <1>4, <1>5, <1>6
  <2>. QED  BY <1>1, <2>1
<1>. QED  BY <1>4, <1>5, <1>6

LEMMA MentionedNext ==
  ASSUME NEW t
  PROVE  Mentioned(t)' <=> \E i \in 1..Len(queue') : \E v \in Payload : queue'[i] = State(t, v)
BY DEF Mentioned, State, Payload

\* Whatever was queued is still, unless it was the message taken.
LEMMA Taken ==
  ASSUME MqttTypes, NEW about, Take(about)
  PROVE  /\ Head(queue) \in Message /\ Head(queue).about = about
         /\ queue' \in Seq(Message)
         /\ \A m : Queued(m) => Queued(m)' \/ m = Head(queue)
         /\ said' = said => \A t \in Topic :
               /\ Upcoming(t) => Upcoming(t)' \/ Head(queue) = State(t, said[t])
               /\ Mentioned(t)' => Mentioned(t) /\ (Upcoming(t) => Upcoming(t)')
<1>1. queue \in Seq(Message) /\ queue # <<>> /\ queue' = Tail(queue)
  BY DEF MqttTypes, Take
<1>2. /\ Head(queue) \in Message /\ Head(queue) = queue[1] /\ queue' \in Seq(Message)
      /\ Len(queue) \in Nat /\ Len(queue') = Len(queue) - 1
      /\ \A i \in 1..Len(queue') : queue'[i] = queue[i + 1]
  BY <1>1
<1>3. ASSUME NEW m, Queued(m), m # Head(queue) PROVE Queued(m)'
  <2>1. PICK i \in 1..Len(queue) : queue[i] = m
    BY <1>3 DEF Queued
  <2>2. i - 1 \in 1..Len(queue') /\ queue'[i - 1] = m
    BY <1>2, <1>3, <2>1
  <2>. QED  BY <2>2 DEF Queued
<1>4. ASSUME said' = said, NEW t \in Topic, Upcoming(t),
             Head(queue) # State(t, said[t]) \/ Mentioned(t)'
      PROVE  Upcoming(t)'
  <2>1. PICK i \in 1..Len(queue) :
            /\ queue[i] = State(t, said[t])
            /\ \A j \in 1..Len(queue) : j > i => \A v \in Payload : queue[j] # State(t, v)
    BY <1>4 DEF Upcoming
  <2>2. i # 1
    <3>1. CASE Mentioned(t)'
      <4>1. PICK k \in 1..Len(queue'), v \in Payload : queue'[k] = State(t, v)
        BY <3>1, MentionedNext
      <4>2. k + 1 \in 1..Len(queue) /\ k + 1 > 1 /\ queue[k + 1] = State(t, v)
        BY <1>2, <4>1
      <4>. QED  BY <2>1, <4>2
    <3>. QED  BY <1>2, <1>4, <2>1, <3>1
  <2>3. i - 1 \in 1..Len(queue') /\ queue'[i - 1] = State(t, said[t])
    BY <1>2, <2>1, <2>2
  <2>4. ASSUME NEW j \in 1..Len(queue'), j > i - 1, NEW v \in Payload
        PROVE  queue'[j] # State(t, v)
    <3>0. j \in Int /\ i \in Int /\ j <= Len(queue') /\ 1 <= j
      BY <1>2
    <3>1. j + 1 \in 1..Len(queue) /\ j + 1 > i
      BY <1>2, <2>4, <3>0
    <3>2. queue'[j] = queue[j + 1]
      BY <1>2
    <3>. QED  BY <2>1, <3>1, <3>2
  <2>. QED  BY <1>4, <2>3, <2>4 DEF Upcoming, State
<1>5. ASSUME NEW t \in Topic, Mentioned(t)' PROVE Mentioned(t)
  <2>1. PICK k \in 1..Len(queue'), v \in Payload : queue'[k] = State(t, v)
    BY <1>5, MentionedNext
  <2>2. k + 1 \in 1..Len(queue) /\ queue[k + 1] = State(t, v)
    BY <1>2, <2>1
  <2>. QED  BY <2>2 DEF Mentioned
<1>. QED  BY <1>2, <1>3, <1>4, <1>5 DEF Take

-----------------------------------------------------------------------------
(* The steps. *)

\* What is delivered does not push anything out.
LEMMA StillQueued ==
  ASSUME MqttTypes, NEW messages \in Seq(Message), Deliver(messages), ~lost'
  PROVE  /\ \A m : Queued(m) => Queued(m)'
         /\ \A m \in ToSet(messages) : Queued(m)'
         /\ \A t \in Topic :
               /\ said'[t] = said[t]
               /\ \A i \in 1..Len(messages) : \A v \in Payload : messages[i] # State(t, v)
               => /\ Upcoming(t) => Upcoming(t)'
                  /\ Mentioned(t)' => Mentioned(t)
<1>1. /\ Len(queue) \in Nat /\ Len(messages) \in Nat
      /\ Len(queue') = Len(queue) + Len(messages)
      /\ \A i \in 1..Len(queue) : i \in 1..Len(queue') /\ queue'[i] = queue[i]
      /\ \A i \in 1..Len(messages) : /\ Len(queue) + i \in 1..Len(queue')
                                     /\ queue'[Len(queue) + i] = messages[i]
  BY Delivered DEF MqttTypes
<1>2. \A m : Queued(m) => Queued(m)'
  BY <1>1 DEF Queued
<1>3. \A m \in ToSet(messages) : Queued(m)'
  <2>1. ASSUME NEW m \in ToSet(messages) PROVE Queued(m)'
    <3>1. PICK i \in 1..Len(messages) : messages[i] = m
      BY DEF ToSet
    <3>2. Len(queue) + i \in 1..Len(queue') /\ queue'[Len(queue) + i] = m
      BY <1>1, <3>1
    <3>. QED  BY <3>2 DEF Queued
  <2>. QED  BY <2>1
<1>4. ASSUME NEW j \in 1..Len(queue')
      PROVE  \/ j \in 1..Len(queue)
             \/ \E k \in 1..Len(messages) : j = Len(queue) + k /\ queue'[j] = messages[k]
  <2>1. CASE j \notin 1..Len(queue)
    <3>1. j - Len(queue) \in 1..Len(messages) /\ j = Len(queue) + (j - Len(queue))
      BY <1>1, <2>1
    <3>. QED  BY <1>1, <3>1
  <2>. QED  BY <2>1
<1>5. ASSUME NEW t \in Topic, said'[t] = said[t], Upcoming(t),
             \A i \in 1..Len(messages) : \A v \in Payload : messages[i] # State(t, v)
      PROVE  Upcoming(t)'
  <2>1. PICK i \in 1..Len(queue) :
            /\ queue[i] = State(t, said[t])
            /\ \A j \in 1..Len(queue) : j > i => \A v \in Payload : queue[j] # State(t, v)
    BY <1>5 DEF Upcoming
  <2>2. i \in 1..Len(queue') /\ queue'[i] = State(t, said'[t])
    BY <1>1, <1>5, <2>1
  <2>3. ASSUME NEW j \in 1..Len(queue'), j > i, NEW v \in Payload
        PROVE  queue'[j] # State(t, v)
    <3>1. CASE j \in 1..Len(queue)
      BY <1>1, <2>1, <2>3, <3>1
    <3>2. CASE j \notin 1..Len(queue)
      BY <1>4, <1>5, <3>2
    <3>. QED  BY <3>1, <3>2
  <2>. QED  BY <2>2, <2>3 DEF Upcoming, State
<1>6. ASSUME NEW t \in Topic, Mentioned(t)',
             \A i \in 1..Len(messages) : \A v \in Payload : messages[i] # State(t, v)
      PROVE  Mentioned(t)
  <2>1. PICK j \in 1..Len(queue'), v \in Payload : queue'[j] = State(t, v)
    BY <1>6, MentionedNext
  <2>2. CASE j \in 1..Len(queue)
    <3>1. queue[j] = State(t, v)
      BY <1>1, <2>1, <2>2
    <3>. QED  BY <2>2, <3>1 DEF Mentioned
  <2>3. CASE j \notin 1..Len(queue)
    <3>1. PICK k \in 1..Len(messages) : queue'[j] = messages[k]
      BY <1>4, <2>3
    <3>. QED  BY <1>6, <2>1, <3>1
  <2>. QED  BY <2>2, <2>3
<1>. QED  BY <1>2, <1>3, <1>5, <1>6

\* A topic whose last payload is delivered behind everything else.
LEMMA ComesLast ==
  ASSUME MqttTypes, NEW messages \in Seq(Message), Deliver(messages), ~lost',
         NEW t \in Topic, NEW k \in 1..Len(messages), messages[k] = State(t, said'[t]),
         \A i \in 1..Len(messages) : i > k => \A v \in Payload : messages[i] # State(t, v)
  PROVE  Upcoming(t)'
<1>1. /\ Len(queue) \in Nat /\ Len(messages) \in Nat
      /\ Len(queue') = Len(queue) + Len(messages)
      /\ \A i \in 1..Len(messages) : /\ Len(queue) + i \in 1..Len(queue')
                                     /\ queue'[Len(queue) + i] = messages[i]
  BY Delivered DEF MqttTypes
<1>2. Len(queue) + k \in 1..Len(queue') /\ queue'[Len(queue) + k] = State(t, said'[t])
  BY <1>1
<1>3. ASSUME NEW j \in 1..Len(queue'), j > Len(queue) + k, NEW v \in Payload
      PROVE  queue'[j] # State(t, v)
  <2>1. j - Len(queue) \in 1..Len(messages) /\ j = Len(queue) + (j - Len(queue))
        /\ j - Len(queue) > k
    BY <1>1, <1>3
  <2>2. PICK i \in 1..Len(messages) : j = Len(queue) + i /\ i > k
    BY <2>1
  <2>. QED  BY <1>1, <2>2
<1>. QED  BY <1>2, <1>3 DEF Upcoming, State

LEMMA HandledStays ==
  ASSUME UNCHANGED <<devices, stateRoutes>>, NEW c
  PROVE  Handled(c)' <=> Handled(c)
BY DEF Handled, Registered

LEMMA AnnounceStep == IngestInv /\ UNCHANGED registryVars /\ (\E c \in Announcement : Announce(c))
                        => IngestInv'
<1> SUFFICES ASSUME IngestInv, UNCHANGED registryVars,
                    NEW c \in Announcement, Announce(c)
             PROVE  IngestInv'
  OBVIOUS
<1>0. MqttTypes /\ HeardInv /\ AnnouncedInv /\ OrderInv /\ ShownInv
  BY DEF IngestInv
<1>1. /\ configs' = [configs EXCEPT ![c.device] = c] /\ c.device \in Device
      /\ DeliverTo(Discovery, Config(c))
      /\ UNCHANGED <<devices, said, subscriptions, asked, stateRoutes, reported>>
  BY AnnouncementParts DEF Announce, registryVars
<1>2. PICK one \in Seq(Message) : one = <<Config(c)>> /\ Len(one) = 1 /\ one[1] = Config(c)
  <2>1. Config(c) \in Message
    BY MessageFacts
  <2>. QED  BY <2>1, SingleMessage
<1>2a. \/ Deliver(one) /\ Discovery \in subscriptions
       \/ UNCHANGED <<queue, lost>> /\ Discovery \notin subscriptions
  BY <1>1, <1>2 DEF DeliverTo
<1>3. MqttTypes'
  <2>1. queue' \in Seq(Message) /\ lost' \in BOOLEAN
    BY <1>0, <1>2a, Delivered DEF MqttTypes
  <2>. QED  BY <1>0, <1>1, <2>1, AnnouncementParts DEF MqttTypes
<1>4. ASSUME ~lost' PROVE ~lost
  BY <1>0, <1>2a, <1>4, Delivered
<1>5. HeardInv'
  BY <1>0, <1>1, <1>4 DEF HeardInv
<1>6. ASSUME ~lost', Discovery \in subscriptions', NEW b \in Announcement, b.sound,
             configs'[b.device] = b
      PROVE  Queued(Config(b))' \/ Handled(b)'
  <2>1. Deliver(one)
    BY <1>1, <1>2a, <1>6
  <2>2. PICK m : m = Config(b)
    OBVIOUS
  <2>3. CASE b = c
    <3>1. m \in ToSet(one)
      BY <1>2, <2>2, <2>3 DEF ToSet
    <3>2. Queued(m)'
      BY <1>0, <1>6, <2>1, <3>1, StillQueued
    <3>. QED  BY <2>2, <3>2
  <2>4. CASE b # c
    <3>1. b.device # c.device /\ configs[b.device] = b
      BY <1>0, <1>1, <1>6, <2>4, AnnouncementParts DEF MqttTypes
    <3>2. Queued(m) \/ Handled(b)
      BY <1>0, <1>1, <1>4, <1>6, <2>2, <3>1 DEF AnnouncedInv
    <3>3. Queued(m) => Queued(m)'
      BY <1>0, <1>6, <2>1, StillQueued
    <3>4. Handled(b)' <=> Handled(b)
      BY <1>1, HandledStays
    <3>. QED  BY <2>2, <3>2, <3>3, <3>4
  <2>. QED  BY <2>3, <2>4
<1>7. AnnouncedInv'
  BY <1>6 DEF AnnouncedInv
<1>8. ASSUME ~lost', NEW t \in Topic
      PROVE  (Upcoming(t) => Upcoming(t)') /\ (Mentioned(t)' => Mentioned(t))
  <2>1. \A i \in 1..Len(one) : \A v \in Payload : one[i] # State(t, v)
    BY <1>2, MessageFacts
  <2>2. said'[t] = said[t]
    BY <1>1
  <2>3. CASE Deliver(one)
    BY <1>0, <1>8, <2>1, <2>2, <2>3, StillQueued
  <2>4. CASE UNCHANGED queue
    <3>1. Mentioned(t)' <=> Mentioned(t)
      BY <2>4 DEF Mentioned, State, Payload
    <3>2. Upcoming(t)' <=> Upcoming(t)
      BY <2>2, <2>4 DEF Upcoming, State, Payload
    <3>. QED  BY <3>1, <3>2
  <2>. QED  BY <1>2a, <2>3, <2>4
<1>9. OrderInv'
  BY <1>0, <1>1, <1>4, <1>8 DEF OrderInv
<1>10. ShownInv'
  BY <1>0, <1>1, <1>4, <1>8 DEF ShownInv
<1>. QED  BY <1>3, <1>5, <1>7, <1>9, <1>10 DEF IngestInv

LEMMA PublishStep ==
  ASSUME IngestInv, UNCHANGED registryVars, NEW t \in Topic, NEW v \in Payload, PublishState(t, v)
  PROVE  IngestInv'
<1>0. MqttTypes /\ HeardInv /\ AnnouncedInv /\ OrderInv /\ ShownInv
  BY DEF IngestInv
<1>1. /\ said' = [said EXCEPT ![t] = v] /\ DeliverTo(t, State(t, v))
      /\ UNCHANGED <<devices, configs, subscriptions, asked, stateRoutes, reported>>
  BY DEF PublishState, registryVars
<1>2. PICK message \in Message : message = State(t, v)
  BY MessageFacts
<1>3. PICK one \in Seq(Message) : one = <<message>> /\ Len(one) = 1 /\ one[1] = message
  BY SingleMessage
<1>4. \/ Deliver(one) /\ t \in subscriptions
      \/ UNCHANGED <<queue, lost>> /\ t \notin subscriptions
  BY <1>1, <1>2, <1>3 DEF DeliverTo
<1>5. MqttTypes'
  <2>1. queue' \in Seq(Message) /\ lost' \in BOOLEAN
    BY <1>0, <1>4, Delivered DEF MqttTypes
  <2>. QED  BY <1>0, <1>1, <2>1 DEF MqttTypes
<1>6. ~lost' => ~lost
  BY <1>0, <1>4, Delivered
<1>7. HeardInv'
  BY <1>0, <1>1, <1>6 DEF HeardInv
<1>8. ASSUME ~lost', NEW m, Queued(m) PROVE Queued(m)'
  BY <1>0, <1>4, <1>8, StillQueued DEF Queued
<1>9. ASSUME NEW c \in Announcement, Handled(c) PROVE Handled(c)'
  BY <1>1, <1>9, HandledStays
<1>10. AnnouncedInv'
  BY <1>0, <1>1, <1>6, <1>8, <1>9 DEF AnnouncedInv
<1>11. ASSUME ~lost', t \in subscriptions PROVE Upcoming(t)'
  <2>1. said'[t] = v
    BY <1>0, <1>1 DEF MqttTypes
  <2>2. Deliver(one) /\ one[1] = State(t, said'[t]) /\ 1 \in 1..Len(one)
    BY <1>2, <1>3, <1>4, <1>11, <2>1
  <2>3. \A i \in 1..Len(one) : i > 1 => \A w \in Payload : one[i] # State(t, w)
    BY <1>3
  <2>. QED  BY <1>0, <1>11, <2>2, <2>3, ComesLast
<1>12. ASSUME ~lost', NEW u \in Topic, u # t
       PROVE  said'[u] = said[u] /\ (Upcoming(u) => Upcoming(u)') /\ (Mentioned(u)' => Mentioned(u))
  <2>1. said'[u] = said[u]
    BY <1>0, <1>1, <1>12 DEF MqttTypes
  <2>2. \A i \in 1..Len(one) : \A w \in Payload : one[i] # State(u, w)
    BY <1>2, <1>3, <1>12, MessageFacts
  <2>3. CASE Deliver(one)
    BY <1>0, <1>12, <2>1, <2>2, <2>3, StillQueued
  <2>4. CASE UNCHANGED queue
    BY <2>1, <2>4 DEF Upcoming, Mentioned, State, Payload
  <2>. QED  BY <1>4, <2>1, <2>3, <2>4
<1>13. ASSUME t \notin subscriptions PROVE Mentioned(t)' => Mentioned(t)
  BY <1>4, <1>13 DEF Mentioned, State, Payload
<1>14. OrderInv'
  BY <1>0, <1>1, <1>6, <1>11, <1>12, <1>13 DEF OrderInv
<1>15. ASSUME ~lost', NEW u \in Topic, stateRoutes'[u] # Nothing, u \notin asked',
              said'[u] \in Readable
       PROVE  reported'[stateRoutes'[u]] = said'[u] \/ Upcoming(u)'
  <2>1. CASE u = t
    BY <1>0, <1>1, <1>6, <1>11, <1>15, <2>1 DEF HeardInv
  <2>2. CASE u # t
    BY <1>0, <1>1, <1>6, <1>12, <1>15, <2>2 DEF ShownInv
  <2>. QED  BY <2>1, <2>2
<1>16. ShownInv'
  BY <1>15 DEF ShownInv
<1>. QED  BY <1>5, <1>7, <1>10, <1>14, <1>16 DEF IngestInv

LEMMA NoiseStep == IngestInv /\ PublishNoise => IngestInv'
<1> SUFFICES ASSUME IngestInv, PublishNoise PROVE IngestInv'
  OBVIOUS
<1>0. MqttTypes /\ HeardInv /\ AnnouncedInv /\ OrderInv /\ ShownInv
  BY DEF IngestInv
<1>1. /\ DeliverTo(Discovery, State(Discovery, Unreadable))
      /\ UNCHANGED <<devices, configs, said, subscriptions, asked, stateRoutes, reported>>
  BY DEF PublishNoise, registryVars
<1>2. PICK message \in Message : message = State(Discovery, Unreadable)
  <2>1. Unreadable \in Payload /\ Discovery \in Topic \cup {Discovery}
    BY DEF Payload
  <2>. QED  BY <2>1, MessageFacts
<1>3. PICK one \in Seq(Message) : one = <<message>> /\ Len(one) = 1 /\ one[1] = message
  BY SingleMessage
<1>4. Deliver(one) \/ UNCHANGED <<queue, lost>>
  BY <1>1, <1>2, <1>3 DEF DeliverTo
<1>5. MqttTypes'
  <2>1. queue' \in Seq(Message) /\ lost' \in BOOLEAN
    BY <1>0, <1>4, Delivered DEF MqttTypes
  <2>. QED  BY <1>0, <1>1, <2>1 DEF MqttTypes
<1>6. ~lost' => ~lost
  BY <1>0, <1>4, Delivered
<1>7. HeardInv'
  BY <1>0, <1>1, <1>6 DEF HeardInv
<1>8. ASSUME ~lost', NEW m, Queued(m) PROVE Queued(m)'
  BY <1>0, <1>4, <1>8, StillQueued DEF Queued
<1>9. ASSUME NEW c \in Announcement, Handled(c) PROVE Handled(c)'
  BY <1>1, <1>9, HandledStays
<1>10. AnnouncedInv'
  BY <1>0, <1>1, <1>6, <1>8, <1>9 DEF AnnouncedInv
<1>11. ASSUME ~lost', NEW t \in Topic
       PROVE  (Upcoming(t) => Upcoming(t)') /\ (Mentioned(t)' => Mentioned(t))
  <2>1. \A i \in 1..Len(one) : \A v \in Payload : one[i] # State(t, v)
    BY <1>2, <1>3, MessageFacts
  <2>2. said'[t] = said[t]
    BY <1>1
  <2>3. CASE Deliver(one)
    BY <1>0, <1>11, <2>1, <2>2, <2>3, StillQueued
  <2>4. CASE UNCHANGED queue
    BY <2>2, <2>4 DEF Upcoming, Mentioned, State, Payload
  <2>. QED  BY <1>4, <2>3, <2>4
<1>12. OrderInv'
  BY <1>0, <1>1, <1>6, <1>11 DEF OrderInv
<1>13. ShownInv'
  BY <1>0, <1>1, <1>6, <1>11 DEF ShownInv
<1>. QED  BY <1>5, <1>7, <1>10, <1>12, <1>13 DEF IngestInv

\* What the broker retains is finite, and made of messages.
LEMMA RetainedFacts ==
  ASSUME MqttTypes
  PROVE  /\ IsFiniteSet(Retained(Discovery)) /\ Retained(Discovery) \subseteq Message
         /\ \A m \in Retained(Discovery) : \A t \in Topic : \A v \in Payload : m # State(t, v)
         /\ \A c \in Announcement : configs[c.device] = c => Config(c) \in Retained(Discovery)
         /\ \A t \in Topic : /\ IsFiniteSet(Retained(t)) /\ Retained(t) \subseteq Message
                             /\ Retained(t) \subseteq {State(t, said[t])}
                             /\ said[t] \in Payload => State(t, said[t]) \in Retained(t)
<1> DEFINE D == {d \in Device : configs[d] # NoConfig}
           S == {Config(configs[d]) : d \in D}
           f == [d \in D |-> Config(configs[d])]
<1>1. Retained(Discovery) = S
  BY DEF Retained
<1>2. IsFiniteSet(D)
  BY FS_Subset
<1>3. f \in Surjection(D, S)
  BY DEF Surjection
<1>4. IsFiniteSet(S)
  <2>. HIDE DEF f, S, D
  <2>. QED  BY <1>2, <1>3, FS_Surjection
<1>5. \A d \in D : configs[d] \in Announcement
  BY DEF MqttTypes
<1>6. S \subseteq Message
  BY <1>5, MessageFacts
<1>7. \A m \in S : \A t \in Topic : \A v \in Payload : m # State(t, v)
  BY MessageFacts
<1>8. \A c \in Announcement : configs[c.device] = c => Config(c) \in S
  <2> SUFFICES ASSUME NEW c \in Announcement, configs[c.device] = c PROVE Config(c) \in S
    OBVIOUS
  <2>1. c.device \in D
    BY AnnouncementParts
  <2>. QED  BY <2>1
<1>9. ASSUME NEW t \in Topic
      PROVE  /\ IsFiniteSet(Retained(t)) /\ Retained(t) \subseteq Message
             /\ Retained(t) \subseteq {State(t, said[t])}
             /\ said[t] \in Payload => State(t, said[t]) \in Retained(t)
  <2>1. Retained(t) = {State(u, said[u]) : u \in {t} \cap {u \in Topic : said[u] # Nothing}}
    BY DEF Retained
  <2>2. Retained(t) \subseteq {State(t, said[t])}
    BY <2>1
  <2>3. IsFiniteSet(Retained(t))
    BY <2>2, FS_Singleton, FS_Subset
  <2>4. ASSUME NEW m \in Retained(t) PROVE m \in Message
    <3>1. m = State(t, said[t]) /\ said[t] # Nothing
      BY <2>1
    <3>2. said[t] \in Payload
      BY <3>1 DEF MqttTypes
    <3>. QED  BY <3>1, <3>2, MessageFacts
  <2>5. Nothing \notin Payload
    BY DEF Payload
  <2>6. said[t] \in Payload => State(t, said[t]) \in Retained(t)
    BY <2>1, <2>5
  <2>. QED  BY <2>2, <2>3, <2>4, <2>6
<1>. QED  BY <1>1, <1>4, <1>6, <1>7, <1>8, <1>9

LEMMA GrantStep ==
  ASSUME IngestInv, UNCHANGED registryVars, NEW x \in asked, x \in Topic \cup {Discovery}, Grant(x)
  PROVE  IngestInv'
<1>0. MqttTypes /\ HeardInv /\ AnnouncedInv /\ OrderInv /\ ShownInv
  BY DEF IngestInv
<1>1. /\ asked' = asked \ {x} /\ subscriptions' = subscriptions \cup {x}
      /\ UNCHANGED <<devices, configs, said, stateRoutes, reported>>
  BY DEF Grant, registryVars, brokerVars
<1>2. PICK messages \in SetToSeqs(Retained(x)) : Deliver(messages)
  BY DEF Grant
<1>3. IsFiniteSet(Retained(x)) /\ Retained(x) \subseteq Message
  BY <1>0, RetainedFacts
<1>4. /\ messages \in Seq(Message) /\ ToSet(messages) = Retained(x)
      /\ \A i \in 1..Len(messages) : messages[i] \in Retained(x)
      /\ \A i \in 1..Len(messages), j \in 1..Len(messages) : messages[i] = messages[j] => i = j
  <2>1. messages \in Seq(Retained(x)) /\ ToSet(messages) = Retained(x)
        /\ \A i \in 1..Len(messages), j \in 1..Len(messages) : messages[i] = messages[j] => i = j
    BY <1>2, <1>3, Listing
  <2>. QED  BY <1>3, <2>1
<1>5. MqttTypes'
  <2>1. queue' \in Seq(Message) /\ lost' \in BOOLEAN
    BY <1>0, <1>2, <1>4, Delivered
  <2>. QED  BY <1>0, <1>1, <2>1 DEF MqttTypes
<1>6. ~lost' => ~lost
  BY <1>0, <1>2, <1>4, Delivered
<1>7. HeardInv'
  BY <1>0, <1>1, <1>6 DEF HeardInv
<1>8. ASSUME ~lost', NEW m, Queued(m) \/ m \in Retained(x) PROVE Queued(m)'
  BY <1>0, <1>2, <1>4, <1>8, StillQueued
<1>9. ASSUME NEW c \in Announcement, Handled(c) PROVE Handled(c)'
  BY <1>1, <1>9, HandledStays
<1>10. ASSUME ~lost', Discovery \in subscriptions', NEW c \in Announcement, c.sound,
              configs'[c.device] = c
       PROVE  Queued(Config(c))' \/ Handled(c)'
  <2>1. PICK m : m = Config(c)
    OBVIOUS
  <2>2. CASE x = Discovery
    <3>1. m \in Retained(x)
      BY <1>0, <1>1, <1>10, <2>1, <2>2, RetainedFacts
    <3>. QED  BY <1>8, <1>10, <2>1, <3>1
  <2>3. CASE x # Discovery
    <3>1. Queued(m) \/ Handled(c)
      BY <1>0, <1>1, <1>6, <1>10, <2>1, <2>3 DEF AnnouncedInv
    <3>. QED  BY <1>8, <1>9, <1>10, <2>1, <3>1
  <2>. QED  BY <2>2, <2>3
<1>11. AnnouncedInv'
  BY <1>10 DEF AnnouncedInv
<1>12. ASSUME ~lost', x \in Topic, said[x] \in Payload PROVE Upcoming(x)'
  <2>1. Retained(x) \subseteq {State(x, said[x])} /\ State(x, said[x]) \in Retained(x)
    BY <1>0, <1>12, RetainedFacts
  <2>2. PICK k \in 1..Len(messages) : messages[k] = State(x, said[x])
    BY <1>4, <2>1 DEF ToSet
  <2>3. \A i \in 1..Len(messages) : i = k
    BY <1>4, <2>1, <2>2
  <2>4. messages[k] = State(x, said'[x])
    BY <1>1, <2>2
  <2>5. \A i \in 1..Len(messages) : i > k => \A v \in Payload : messages[i] # State(x, v)
    BY <2>3
  <2>. QED  BY <1>0, <1>2, <1>4, <1>12, <2>4, <2>5, ComesLast
<1>13. ASSUME ~lost', NEW t \in Topic, t # x \/ said[x] \notin Payload
       PROVE  (Upcoming(t) => Upcoming(t)') /\ (Mentioned(t)' => Mentioned(t))
  <2>1. \A i \in 1..Len(messages) : \A v \in Payload : messages[i] # State(t, v)
    <3>1. CASE x = Discovery
      BY <1>0, <1>4, <3>1, RetainedFacts
    <3>2. CASE x # Discovery
      <4>1. Retained(x) \subseteq {State(x, said[x])}
        BY <1>0, <3>2, RetainedFacts
      <4>. QED  BY <1>4, <1>13, <4>1, MessageFacts
    <3>. QED  BY <3>1, <3>2
  <2>2. said'[t] = said[t]
    BY <1>1
  <2>. QED  BY <1>0, <1>2, <1>4, <1>13, <2>1, <2>2, StillQueued
<1>14. OrderInv'
  BY <1>0, <1>1, <1>6, <1>12, <1>13 DEF OrderInv
<1>15. ShownInv'
  BY <1>0, <1>1, <1>6, <1>12, <1>13 DEF ShownInv, Payload
<1>. QED  BY <1>5, <1>7, <1>11, <1>14, <1>15 DEF IngestInv

LEMMA Greatest ==
  ASSUME NEW n \in Nat, NEW T \in SUBSET (1..n), T # {}
  PROVE  \E i \in T : \A j \in T : j <= i
<1> DEFINE Above(i) == {j \in T : i < j}
           sets == {Above(i) : i \in T}
<1>0. IsFiniteSet(1..n)
  <2>1. 1 \in Int /\ n \in Int
    OBVIOUS
  <2>. QED  BY <2>1, FS_Interval
<1>1. PICK D : D = 1..n
  OBVIOUS
<1>2. IsFiniteSet(D) /\ T \in SUBSET D
  BY <1>0, <1>1
<1>3. ASSUME NEW i \in T PROVE Above(i) \in SUBSET D /\ IsFiniteSet(Above(i))
  <2>1. Above(i) \in SUBSET D
    BY <1>2
  <2>. HIDE DEF Above
  <2>. QED  BY <1>2, <2>1, FS_Subset
<1>4. sets \subseteq FiniteSubsetsOf(D) /\ sets # {}
  <2>. HIDE DEF Above
  <2>. QED  BY <1>3 DEF FiniteSubsetsOf
<1>5. \E x \in sets : \A y \in sets : <<y, x>> \notin StrictSubsetOrdering(D)
  <2>1. IsWellFoundedOn(StrictSubsetOrdering(D), FiniteSubsetsOf(D))
    BY FS_StrictSubsetOrderingWellFounded
  <2>. HIDE DEF sets
  <2>. QED  BY <1>4, <2>1, WFMin
<1>6. PICK i \in T : \A k \in T : <<Above(k), Above(i)>> \notin StrictSubsetOrdering(D)
  <2>. HIDE DEF Above
  <2>. QED  BY <1>5
<1>7. ASSUME NEW j \in T, i < j PROVE FALSE
  <2>0. \A k \in T : k \in Int
    OBVIOUS
  <2>1. j \in Above(i) /\ j \notin Above(j)
    BY <1>7, <2>0
  <2>2. ASSUME NEW k \in Above(j) PROVE k \in Above(i)
    <3>1. k \in T /\ j < k /\ k \in Int /\ i \in Int /\ j \in Int
      BY <2>0, <2>2
    <3>2. i < k
      BY <1>7, <3>1
    <3>. QED  BY <3>1, <3>2
  <2>. HIDE DEF Above
  <2>. QED  BY <1>3, <1>6, <2>1, <2>2 DEF StrictSubsetOrdering
<1>8. \A j \in T : j \in Int
  OBVIOUS
<1>. QED  BY <1>7, <1>8

\* The routes of an announcement lead to components it lists.
LEMMA RoutesFacts ==
  ASSUME MqttTypes, NEW c \in Announcement, NEW t \in Topic
  PROVE  /\ RoutesWith(c) \in [Topic -> Entity \cup {Nothing}]
         /\ \/ RoutesWith(c)[t] = stateRoutes[t] /\ t \notin TopicsOf(c)
            \/ RoutesWith(c)[t] \in ToSet(c.components) /\ StateTopic[RoutesWith(c)[t]] = t
<1> DEFINE On(u) == {i \in DOMAIN c.components : StateTopic[c.components[i]] = u}
           LastOn(u) == CHOOSE i \in On(u) : \A j \in On(u) : j <= i
<1>1. RoutesWith(c) = [u \in Topic |-> IF On(u) = {} THEN stateRoutes[u] ELSE c.components[LastOn(u)]]
  BY DEF RoutesWith
<1>2. /\ DOMAIN c.components = 1..Len(c.components) /\ Len(c.components) \in Nat
      /\ \A i \in 1..Len(c.components) : c.components[i] \in ToSet(c.components)
      /\ \A e \in ToSet(c.components) : \E i \in 1..Len(c.components) : c.components[i] = e
      /\ ToSet(c.components) \subseteq Entity
  <2>1. DOMAIN c.components = 1..Len(c.components) /\ c.components \in Seq({e \in Entity : Owner[e] = c.device})
        /\ ToSet(c.components) \subseteq Entity
    BY AnnouncementParts
  <2>. QED  BY <2>1 DEF ToSet
<1>3. ASSUME NEW u \in Topic, On(u) # {} PROVE LastOn(u) \in On(u)
  <2>1. On(u) \in SUBSET (1..Len(c.components))
    BY <1>2
  <2>2. \E i \in On(u) : \A j \in On(u) : j <= i
    <3>. HIDE DEF On
    <3>. QED  BY <1>2, <1>3, <2>1, Greatest
  <2>. QED  BY <2>2
<1>. HIDE DEF LastOn
<1>4. ASSUME NEW u \in Topic, On(u) # {}
      PROVE  /\ c.components[LastOn(u)] \in ToSet(c.components)
             /\ StateTopic[c.components[LastOn(u)]] = u
  BY <1>2, <1>3, <1>4
<1>5. RoutesWith(c) \in [Topic -> Entity \cup {Nothing}]
  <2>1. \A u \in Topic : (IF On(u) = {} THEN stateRoutes[u] ELSE c.components[LastOn(u)])
                            \in Entity \cup {Nothing}
    <3>1. \A u \in Topic : stateRoutes[u] \in Entity \cup {Nothing}
      BY DEF MqttTypes
    <3>2. \A u \in Topic : On(u) # {} => c.components[LastOn(u)] \in Entity
      BY <1>2, <1>4
    <3>. HIDE DEF On
    <3>. QED  BY <3>1, <3>2
  <2>. HIDE DEF On
  <2>. QED  BY <1>1, <2>1
<1>6. CASE On(t) = {}
  <2>1. t \notin TopicsOf(c)
    <3>1. \A i \in 1..Len(c.components) : StateTopic[c.components[i]] # t
      BY <1>2, <1>6
    <3>2. \A e \in ToSet(c.components) : StateTopic[e] # t
      BY <1>2, <3>1
    <3>. QED  BY <3>2 DEF TopicsOf
  <2>. QED  BY <1>1, <1>5, <1>6, <2>1
<1>7. CASE On(t) # {}
  <2>1. RoutesWith(c)[t] = c.components[LastOn(t)]
    BY <1>1, <1>7
  <2>. QED  BY <1>4, <1>5, <1>7, <2>1
<1>. QED  BY <1>6, <1>7

LEMMA IngestStep ==
  ASSUME MqttInv, IngestDiscovery
  PROVE  MqttInv'
<1>0. RegistryInv /\ MqttTypes /\ HeardInv /\ AnnouncedInv /\ OrderInv /\ ShownInv
  BY DEF MqttInv, IngestInv
<1>1. PICK c : c = Head(queue).config
  OBVIOUS
<1>2. /\ Take("config") /\ c.sound
      /\ \E name \in GivenName : RegisterDiscovery(c.device, ToSet(c.components), name)
      /\ stateRoutes' = RoutesWith(c) /\ asked' = asked \cup TopicsOf(c)
      /\ UNCHANGED <<configs, said, subscriptions, reported, lost>>
  BY <1>1 DEF IngestDiscovery, brokerVars
<1>3. Head(queue) = Config(c) /\ c \in Announcement
  <2>1. Head(queue) \in Message /\ Head(queue).about = "config"
    BY <1>0, <1>2, Taken
  <2>2. \A t, v : State(t, v).about = "state"
    BY DEF State
  <2>3. PICK b \in Announcement : Head(queue) = Config(b)
    BY <2>1, <2>2 DEF Message
  <2>. QED  BY <1>1, <2>3 DEF Config
<1>4. PICK name \in GivenName : RegisterDiscovery(c.device, ToSet(c.components), name)
  BY <1>2
<1>5. RegistryInv'
  BY <1>0, <1>3, <1>4, AnnouncementParts, DiscoveryStep
<1>6. \A d \in Device : Registered(d) \/ d = c.device => Registered(d)'
  <2>0. PICK records : records = [e \in ToSet(c.components) |-> RecordOf(e, name)]
    OBVIOUS
  <2>1. PICK device : /\ devices' = [devices EXCEPT ![c.device] = device]
                      /\ device = [name |-> IF Registered(c.device) THEN devices[c.device].name
                                                                   ELSE name,
                                   status |-> "available", entities |-> records]
    BY <1>4, <2>0 DEF RegisterDiscovery
  <2>2. device # NoDevice
    BY <2>1 DEF NoDevice
  <2>3. devices \in [Device -> DeviceRecord \cup {NoDevice}] /\ c.device \in Device
    BY <1>0, <1>3, AnnouncementParts DEF RegistryInv, Shape
  <2>. QED  BY <2>1, <2>2, <2>3 DEF Registered
<1>7. MqttTypes'
  <2>1. queue' \in Seq(Message)
    BY <1>0, <1>2, Taken
  <2>2. stateRoutes' \in [Topic -> Entity \cup {Nothing}]
    <3>1. CASE Topic = {}
      BY <1>2, <3>1 DEF RoutesWith
    <3>2. CASE Topic # {}
      BY <1>0, <1>2, <1>3, <3>2, RoutesFacts
    <3>. QED  BY <3>1, <3>2
  <2>3. TopicsOf(c) \subseteq Topic
    <3>1. ToSet(c.components) \subseteq Entity
      BY <1>3, AnnouncementParts
    <3>. QED  BY <3>1 DEF TopicsOf
  <2>. QED  BY <1>0, <1>2, <2>1, <2>2, <2>3 DEF MqttTypes
<1>8. ASSUME NEW t \in Topic
      PROVE  \/ stateRoutes'[t] = stateRoutes[t] /\ t \notin TopicsOf(c)
             \/ /\ stateRoutes'[t] \in ToSet(c.components) /\ StateTopic[stateRoutes'[t]] = t
                /\ t \in TopicsOf(c)
  <2>1. \/ stateRoutes'[t] = stateRoutes[t] /\ t \notin TopicsOf(c)
        \/ stateRoutes'[t] \in ToSet(c.components) /\ StateTopic[stateRoutes'[t]] = t
    BY <1>0, <1>2, <1>3, RoutesFacts
  <2>. QED  BY <2>1 DEF TopicsOf
<1>9. HeardInv'
  BY <1>0, <1>2, <1>8 DEF HeardInv
<1>10. ASSUME NEW b \in Announcement, Handled(b) \/ b = c PROVE Handled(b)'
  <2>1. Registered(b.device)'
    BY <1>6, <1>10, AnnouncementParts DEF Handled
  <2>2. ASSUME NEW e \in ToSet(b.components), Alone(e) PROVE stateRoutes'[StateTopic[e]] = e
    <3>1. e \in Entity /\ StateTopic[e] \in Topic
      BY <2>2, AnnouncementParts
    <3>2. CASE stateRoutes'[StateTopic[e]] \in ToSet(c.components)
               /\ StateTopic[stateRoutes'[StateTopic[e]]] = StateTopic[e]
      <4>1. stateRoutes'[StateTopic[e]] \in Entity
        BY <1>3, <3>2, AnnouncementParts
      <4>. QED  BY <2>2, <3>1, <3>2, <4>1 DEF Alone
    <3>3. CASE stateRoutes'[StateTopic[e]] = stateRoutes[StateTopic[e]]
               /\ StateTopic[e] \notin TopicsOf(c)
      <4>1. b # c
        BY <2>2, <3>3 DEF TopicsOf
      <4>. QED  BY <1>10, <2>2, <3>3, <4>1 DEF Handled
    <3>. QED  BY <1>8, <3>1, <3>2, <3>3
  <2>. QED  BY <2>1, <2>2 DEF Handled, Alone
<1>11. ASSUME ~lost', Discovery \in subscriptions', NEW b \in Announcement, b.sound,
              configs'[b.device] = b
       PROVE  Queued(Config(b))' \/ Handled(b)'
  <2>1. PICK m : m = Config(b)
    OBVIOUS
  <2>2. CASE b = c
    BY <1>10, <2>2
  <2>3. CASE b # c
    <3>1. Queued(m) \/ Handled(b)
      BY <1>0, <1>2, <1>11, <2>1 DEF AnnouncedInv
    <3>2. m # Head(queue)
      BY <1>3, <2>1, <2>3, MessageFacts
    <3>3. Queued(m) => Queued(m)'
      BY <1>0, <1>2, <3>2, Taken
    <3>. QED  BY <1>10, <2>1, <3>1, <3>3
  <2>. QED  BY <2>2, <2>3
<1>12. AnnouncedInv'
  BY <1>11 DEF AnnouncedInv
<1>13. ASSUME ~lost', NEW t \in Topic, stateRoutes'[t] # Nothing, t \notin asked',
              said'[t] \in Readable
       PROVE  reported'[stateRoutes'[t]] = said'[t] \/ Upcoming(t)'
  <2>1. t \notin asked /\ stateRoutes'[t] = stateRoutes[t]
    BY <1>2, <1>8, <1>13
  <2>2. reported[stateRoutes[t]] = said[t] \/ Upcoming(t)
    BY <1>0, <1>2, <1>13, <2>1 DEF ShownInv
  <2>3. Head(queue) # State(t, said[t])
    BY <1>3, MessageFacts
  <2>4. Upcoming(t) => Upcoming(t)'
    BY <1>0, <1>2, <2>3, Taken
  <2>. QED  BY <1>2, <2>1, <2>2, <2>4
<1>14. ShownInv'
  BY <1>13 DEF ShownInv
<1>15. OrderInv'
  BY <1>0, <1>2, Taken DEF OrderInv
<1>. QED  BY <1>5, <1>7, <1>9, <1>12, <1>14, <1>15 DEF MqttInv, IngestInv

\* A message that is no announcement to be taken, and does not leave a topic
\* without what it last said.
LEMMA Dropped ==
  ASSUME IngestInv, NEW about, Take(about),
         \A c \in Announcement : Head(queue) = Config(c) => ~c.sound,
         UNCHANGED <<devices, configs, said, subscriptions, asked, stateRoutes, lost>>,
         reported' \in [Entity -> Readable \cup {Nothing}],
         \A t \in Topic :
             stateRoutes[t] # Nothing =>
                /\ Head(queue) = State(t, said[t]) /\ said[t] \in Readable
                      => reported'[stateRoutes[t]] = said[t]
                /\ reported'[stateRoutes[t]] # reported[stateRoutes[t]]
                      => \E v \in Payload : Head(queue) = State(t, v)
  PROVE  IngestInv'
<1>0. MqttTypes /\ HeardInv /\ AnnouncedInv /\ OrderInv /\ ShownInv
  BY DEF IngestInv
<1>1. MqttTypes'
  <2>1. queue' \in Seq(Message)
    BY <1>0, Taken
  <2>. QED  BY <1>0, <2>1 DEF MqttTypes
<1>2. HeardInv'
  BY <1>0 DEF HeardInv
<1>3. ASSUME ~lost', Discovery \in subscriptions', NEW b \in Announcement, b.sound,
             configs'[b.device] = b
      PROVE  Queued(Config(b))' \/ Handled(b)'
  <2>1. PICK m : m = Config(b)
    OBVIOUS
  <2>2. Queued(m) \/ Handled(b)
    BY <1>0, <1>3, <2>1 DEF AnnouncedInv
  <2>3. m # Head(queue)
    BY <1>3, <2>1
  <2>4. Queued(m) => Queued(m)'
    BY <1>0, <2>3, Taken
  <2>5. Handled(b)' <=> Handled(b)
    BY HandledStays
  <2>. QED  BY <2>1, <2>2, <2>4, <2>5
<1>4. AnnouncedInv'
  BY <1>3 DEF AnnouncedInv
<1>5. ASSUME ~lost', NEW t \in Topic, stateRoutes'[t] # Nothing, t \notin asked',
             said'[t] \in Readable
      PROVE  reported'[stateRoutes'[t]] = said'[t] \/ Upcoming(t)'
  <2>1. reported[stateRoutes[t]] = said[t] \/ Upcoming(t)
    BY <1>0, <1>5 DEF ShownInv
  <2>2. Upcoming(t) => Upcoming(t)' \/ Head(queue) = State(t, said[t])
    BY <1>0, Taken
  <2>3. CASE Head(queue) = State(t, said[t])
    BY <1>5, <2>3
  <2>4. CASE Head(queue) # State(t, said[t]) /\ Upcoming(t)
    BY <2>2, <2>4
  <2>5. CASE ~Upcoming(t)
    <3>1. ~Mentioned(t)
      BY <1>0, <1>5, <2>5 DEF OrderInv
    <3>2. \A v \in Payload : Head(queue) # State(t, v)
      <4>1. 1 \in 1..Len(queue) /\ Head(queue) = queue[1]
        BY <1>0 DEF MqttTypes, Take
      <4>. QED  BY <3>1, <4>1 DEF Mentioned
    <3>. QED  BY <1>5, <2>1, <2>5, <3>2
  <2>. QED  BY <2>3, <2>4, <2>5
<1>6. ShownInv'
  BY <1>5 DEF ShownInv
<1>7. OrderInv'
  BY <1>0, Taken DEF OrderInv
<1>. QED  BY <1>1, <1>2, <1>4, <1>6, <1>7 DEF IngestInv

LEMMA StateStep ==
  ASSUME IngestInv, UNCHANGED registryVars, IngestState
  PROVE  IngestInv'
<1>0. MqttTypes /\ HeardInv
  BY DEF IngestInv
<1>1. /\ Take("state") /\ Accepted(Head(queue))
      /\ reported' = [reported EXCEPT ![stateRoutes[Head(queue).topic]] = Head(queue).payload]
      /\ UNCHANGED <<devices, configs, said, subscriptions, asked, stateRoutes, lost>>
  BY DEF IngestState, registryVars, brokerVars
<1>2. Head(queue) \in Message /\ Head(queue).about = "state"
  BY <1>0, <1>1, Taken
<1>3. \A b : Head(queue) # Config(b)
  BY <1>2 DEF Config
<1>4. PICK u \in Topic \cup {Discovery}, w \in Payload : Head(queue) = State(u, w)
  BY <1>2, <1>3 DEF Message
<1>5. u \in Topic /\ stateRoutes[u] \in Entity /\ w \in Readable
      /\ reported' = [reported EXCEPT ![stateRoutes[u]] = w]
  <2>1. Head(queue).topic = u /\ Head(queue).payload = w
    BY <1>4 DEF State
  <2>. QED  BY <1>0, <1>1, <2>1 DEF Accepted, HasRoute, MqttTypes
<1>6. reported' \in [Entity -> Readable \cup {Nothing}]
  BY <1>0, <1>5 DEF MqttTypes
<1>7. ASSUME NEW t \in Topic, stateRoutes[t] # Nothing
      PROVE  /\ Head(queue) = State(t, said[t]) /\ said[t] \in Readable
                   => reported'[stateRoutes[t]] = said[t]
             /\ reported'[stateRoutes[t]] # reported[stateRoutes[t]]
                   => \E v \in Payload : Head(queue) = State(t, v)
  <2>1. CASE t = u
    <3>1. reported'[stateRoutes[t]] = w
      BY <1>0, <1>5, <2>1 DEF MqttTypes
    <3>2. Head(queue) = State(t, said[t]) => w = said[t]
      BY <1>4, MessageFacts
    <3>. QED  BY <1>4, <2>1, <3>1, <3>2
  <2>2. CASE t # u
    <3>1. StateTopic[stateRoutes[t]] = t /\ StateTopic[stateRoutes[u]] = u
      BY <1>0, <1>5, <1>7 DEF HeardInv
    <3>2. stateRoutes[t] # stateRoutes[u]
      BY <2>2, <3>1
    <3>3. reported'[stateRoutes[t]] = reported[stateRoutes[t]]
      BY <1>0, <1>5, <1>7, <3>2 DEF MqttTypes
    <3>4. Head(queue) # State(t, said[t])
      BY <1>4, <2>2, MessageFacts
    <3>. QED  BY <3>3, <3>4
  <2>. QED  BY <2>1, <2>2
<1>. QED  BY <1>1, <1>3, <1>6, <1>7, Dropped

\* What is refused is no sound announcement, and no payload an entity shows.
LEMMA RefuseStep == MqttInv /\ Refuse => MqttInv'
<1> SUFFICES ASSUME MqttInv, Refuse PROVE MqttInv'
  OBVIOUS
<1>0. RegistryInv /\ IngestInv /\ MqttTypes
  BY DEF MqttInv, IngestInv
<1>1. /\ UpsertAdapterHealth(MqttAdapter, "degraded")
      /\ UNCHANGED <<configs, said, subscriptions, asked, stateRoutes, reported, lost>>
  BY DEF Refuse, brokerVars
<1>2. RegistryInv' /\ UNCHANGED devices
  <2>1. "degraded" \in Health
    BY DEF Health
  <2>. QED  BY <1>0, <1>1, <2>1, HealthStep DEF UpsertAdapterHealth
<1>3. reported' \in [Entity -> Readable \cup {Nothing}]
  BY <1>0, <1>1 DEF MqttTypes
<1>4. \A t \in Topic : reported'[stateRoutes[t]] = reported[stateRoutes[t]]
  BY <1>1
<1>5. CASE Take("config") /\ ~Head(queue).config.sound
  <2>1. \A b \in Announcement : Head(queue) = Config(b) => ~b.sound
    BY <1>5 DEF Config
  <2>2. Head(queue).about = "config"
    BY <1>0, <1>5, Taken
  <2>3. \A t, v : Head(queue) # State(t, v)
    BY <2>2 DEF State
  <2>. QED  BY <1>0, <1>1, <1>2, <1>3, <1>4, <1>5, <2>1, <2>3, Dropped DEF MqttInv
<1>6. CASE Take("state") /\ ~Accepted(Head(queue))
  <2>1. Head(queue).about = "state"
    BY <1>0, <1>6, Taken
  <2>2. \A b : Head(queue) # Config(b)
    BY <2>1 DEF Config
  <2>3. ASSUME NEW t \in Topic, stateRoutes[t] # Nothing, said[t] \in Readable
        PROVE  Head(queue) # State(t, said[t])
    <3>1. ASSUME Head(queue) = State(t, said[t]) PROVE FALSE
      <4>1. Head(queue).topic = t /\ Head(queue).payload = said[t]
        BY <3>1 DEF State
      <4>. QED  BY <1>6, <2>3, <4>1 DEF Accepted, HasRoute
    <3>. QED  BY <3>1
  <2>. QED  BY <1>0, <1>1, <1>2, <1>3, <1>4, <1>6, <2>2, <2>3, Dropped DEF MqttInv
<1>. QED  BY <1>5, <1>6 DEF Refuse

\* A step that leaves the messages, the routes and the broker alone.
LEMMA ElsewhereStep ==
  ASSUME IngestInv, UNCHANGED <<configs, said, subscriptions, asked, queue, stateRoutes, reported>>,
         UNCHANGED devices, lost' \in BOOLEAN, lost => lost'
  PROVE  IngestInv'
<1>0. MqttTypes /\ HeardInv /\ AnnouncedInv /\ OrderInv /\ ShownInv
  BY DEF IngestInv
<1>1. MqttTypes' /\ HeardInv'
  BY <1>0 DEF MqttTypes, HeardInv
<1>2. AnnouncedInv'
  BY <1>0 DEF AnnouncedInv, Queued, Handled, Registered
<1>3. \A t \in Topic : (Upcoming(t)' <=> Upcoming(t)) /\ (Mentioned(t)' <=> Mentioned(t))
  BY DEF Upcoming, Mentioned, State, Payload
<1>4. OrderInv' /\ ShownInv'
  BY <1>0, <1>3 DEF OrderInv, ShownInv
<1>. QED  BY <1>1, <1>2, <1>4 DEF IngestInv

LEMMA ReportStep == MqttInv /\ ReportAvailable => MqttInv'
<1> SUFFICES ASSUME MqttInv, ReportAvailable PROVE MqttInv'
  OBVIOUS
<1>0. RegistryInv /\ IngestInv /\ lost \in BOOLEAN
  BY DEF MqttInv, IngestInv, MqttTypes
<1>1. /\ UpsertAdapterHealth(MqttAdapter, "available")
      /\ UNCHANGED <<configs, said, subscriptions, asked, queue, stateRoutes, reported, lost>>
  BY DEF ReportAvailable, brokerVars
<1>2. RegistryInv' /\ UNCHANGED devices
  <2>1. "available" \in Health
    BY DEF Health
  <2>. QED  BY <1>0, <1>1, <2>1, HealthStep DEF UpsertAdapterHealth
<1>. QED  BY <1>0, <1>1, <1>2, ElsewhereStep DEF MqttInv

\* A session that hears nothing has missed something until the process ends.
LEMMA ReconnectStep == IngestInv /\ UNCHANGED registryVars /\ Reconnect => IngestInv'
<1> SUFFICES ASSUME IngestInv, UNCHANGED registryVars, Reconnect PROVE IngestInv'
  OBVIOUS
<1>1. /\ lost' = TRUE
      /\ UNCHANGED <<configs, said, asked, queue, stateRoutes, reported>>
  BY DEF Reconnect, brokerVars
<1>2. MqttTypes /\ HeardInv
  BY DEF IngestInv
<1>3. MqttTypes' /\ HeardInv'
  BY <1>1, <1>2 DEF MqttTypes, HeardInv
<1>. QED  BY <1>1, <1>3 DEF IngestInv, AnnouncedInv, OrderInv, ShownInv

LEMMA RestartStep == IngestInv /\ Restart => IngestInv'
<1> SUFFICES ASSUME IngestInv, Restart PROVE IngestInv'
  OBVIOUS
<1>1. /\ subscriptions' = {} /\ asked' = {Discovery} /\ queue' = <<>> /\ lost' = FALSE
      /\ stateRoutes' = [t \in Topic |-> Nothing]
      /\ UNCHANGED <<configs, said, reported>>
  BY DEF Restart, brokerVars
<1>2. MqttTypes
  BY DEF IngestInv
<1>3. MqttTypes' /\ HeardInv'
  <2>1. \A t \in Topic : stateRoutes'[t] = Nothing
    BY <1>1
  <2>2. stateRoutes' \in [Topic -> Entity \cup {Nothing}]
    BY <1>1
  <2>3. queue' \in Seq(Message)
    BY <1>1
  <2>. QED  BY <1>1, <1>2, <2>1, <2>2, <2>3 DEF MqttTypes, HeardInv
<1>4. \A t \in Topic : ~Mentioned(t)'
  BY <1>1 DEF Mentioned
<1>5. AnnouncedInv' /\ OrderInv' /\ ShownInv'
  BY <1>1, <1>4 DEF AnnouncedInv, OrderInv, ShownInv
<1>. QED  BY <1>3, <1>5 DEF IngestInv

LEMMA MqttInvInit == RegistryInit /\ MqttInit => MqttInv
<1> SUFFICES ASSUME RegistryInit, MqttInit PROVE MqttInv
  OBVIOUS
<1>1. RegistryInv
  BY RegistryInvInit
<1>2. MqttTypes /\ HeardInv
  <2>1. configs \in [Device -> Announcement \cup {NoConfig}]
    BY DEF MqttInit
  <2>2. \A d \in Device : configs[d] = NoConfig
    BY DEF MqttInit
  <2>3. stateRoutes \in [Topic -> Entity \cup {Nothing}] /\ said \in [Topic -> Payload \cup {Nothing}]
        /\ reported \in [Entity -> Readable \cup {Nothing}] /\ queue \in Seq(Message)
    BY DEF MqttInit
  <2>4. \A t \in Topic : stateRoutes[t] = Nothing
    BY DEF MqttInit
  <2>. QED  BY <2>1, <2>2, <2>3, <2>4 DEF MqttInit, MqttTypes, HeardInv
<1>3. \A t \in Topic : ~Mentioned(t)
  BY DEF MqttInit, Mentioned
<1>4. AnnouncedInv /\ OrderInv /\ ShownInv
  BY <1>3 DEF MqttInit, AnnouncedInv, OrderInv, ShownInv
<1>. QED  BY <1>1, <1>2, <1>4 DEF MqttInv, IngestInv

LEMMA MqttInvStep == MqttInv /\ [MqttNext]_<<registryVars, mqttVars>> => MqttInv'
<1> SUFFICES ASSUME MqttInv, [MqttNext]_<<registryVars, mqttVars>> PROVE MqttInv'
  OBVIOUS
<1>0. RegistryInv /\ IngestInv /\ asked \subseteq Topic \cup {Discovery} /\ lost \in BOOLEAN
  BY DEF MqttInv, IngestInv, MqttTypes
<1>1. ASSUME UNCHANGED registryVars PROVE RegistryInv'
  BY <1>0, <1>1, RegistryInvStep
<1>2. CASE \E c \in Announcement : Announce(c)
  <2>1. UNCHANGED registryVars
    BY <1>2 DEF Announce
  <2>. QED  BY <1>0, <1>1, <1>2, <2>1, AnnounceStep DEF MqttInv
<1>3. CASE \E t \in Topic, v \in Payload : PublishState(t, v)
  <2>1. PICK t \in Topic, v \in Payload : PublishState(t, v)
    BY <1>3
  <2>2. UNCHANGED registryVars
    BY <2>1 DEF PublishState
  <2>. QED  BY <1>0, <1>1, <2>1, <2>2, PublishStep DEF MqttInv
<1>4. CASE PublishNoise
  <2>1. UNCHANGED registryVars
    BY <1>4 DEF PublishNoise
  <2>. QED  BY <1>0, <1>1, <1>4, <2>1, NoiseStep DEF MqttInv
<1>5. CASE \E x \in asked : Grant(x)
  <2>1. PICK x \in asked : Grant(x)
    BY <1>5
  <2>2. UNCHANGED registryVars /\ x \in Topic \cup {Discovery}
    BY <1>0, <2>1 DEF Grant
  <2>. QED  BY <1>0, <1>1, <2>1, <2>2, GrantStep DEF MqttInv
<1>6. CASE IngestDiscovery
  BY <1>6, IngestStep
<1>7. CASE ReportAvailable
  BY <1>7, ReportStep
<1>8. CASE IngestState
  <2>1. UNCHANGED registryVars
    BY <1>8 DEF IngestState
  <2>. QED  BY <1>0, <1>1, <1>8, <2>1, StateStep DEF MqttInv
<1>9. CASE Refuse
  BY <1>9, RefuseStep
<1>10. CASE Reconnect
  <2>1. UNCHANGED registryVars
    BY <1>10 DEF Reconnect
  <2>. QED  BY <1>0, <1>1, <1>10, <2>1, ReconnectStep DEF MqttInv
<1>11. CASE Restart
  <2>1. UNCHANGED registryVars
    BY <1>11 DEF Restart
  <2>. QED  BY <1>0, <1>1, <1>11, <2>1, RestartStep DEF MqttInv
<1>12. CASE UNCHANGED <<registryVars, mqttVars>>
  <2>1. UNCHANGED registryVars /\ UNCHANGED devices
        /\ UNCHANGED <<configs, said, subscriptions, asked, queue, stateRoutes, reported, lost>>
    BY <1>12 DEF registryVars, mqttVars, brokerVars
  <2>. QED  BY <1>0, <1>1, <2>1, ElsewhereStep DEF MqttInv
<1>. QED  BY <1>2, <1>3, <1>4, <1>5, <1>6, <1>7, <1>8, <1>9, <1>10, <1>11, <1>12 DEF MqttNext

\* infrastructure/0003: retained messages serve as the initial state, and a
\* device finds its identity again after a restart.  Once everything granted,
\* published and asked for has been taken by a process that has missed nothing,
\* every device soundly announced to the broker is registered, routed, and
\* shows what its topics last said (ingest_discovery, ingest_state).
THEOREM QuietIsCurrent == MqttSpec => []QuietMeansCurrent
<1>1. ASSUME MqttInv PROVE QuietMeansCurrent
  <2> SUFFICES ASSUME Quiet, NEW d \in Device, configs[d].sound
               PROVE  /\ Registered(d)
                      /\ \A e \in ToSet(configs[d].components) :
                            /\ Alone(e) => stateRoutes[StateTopic[e]] = e
                            /\ stateRoutes[StateTopic[e]] = e /\ said[StateTopic[e]] \in Readable
                                  => reported[e] = said[StateTopic[e]]
    BY DEF QuietMeansCurrent
  <2>0. MqttTypes /\ HeardInv /\ AnnouncedInv /\ ShownInv
    BY <1>1 DEF MqttInv, IngestInv
  <2>1. ~lost /\ queue = <<>> /\ asked = {}
    BY DEF Quiet
  <2>2. PICK c : c = configs[d]
    OBVIOUS
  <2>3. c \in Announcement /\ c.device = d /\ c.sound
    BY <2>0, <2>2 DEF MqttTypes, NoConfig
  <2>4. Handled(c)
    <3>1. ~Queued(Config(c))
      BY <2>1 DEF Queued
    <3>2. Discovery \in subscriptions
      BY <2>0, <2>1 DEF HeardInv
    <3>. QED  BY <2>0, <2>1, <2>2, <2>3, <3>1, <3>2 DEF AnnouncedInv
  <2>5. ASSUME NEW e \in ToSet(c.components), stateRoutes[StateTopic[e]] = e,
               said[StateTopic[e]] \in Readable
        PROVE  reported[e] = said[StateTopic[e]]
    <3>1. e \in Entity
      BY <2>3, AnnouncementParts
    <3>2. StateTopic[e] \in Topic /\ e # Nothing
      BY <3>1
    <3>3. ~Upcoming(StateTopic[e])
      BY <2>1 DEF Upcoming
    <3>. QED  BY <2>0, <2>1, <2>5, <3>2, <3>3 DEF ShownInv
  <2>. QED  BY <2>2, <2>3, <2>4, <2>5 DEF Handled
<1>. QED  BY <1>1, MqttInvInit, MqttInvStep, PTL DEF MqttSpec

\* The queue keeps its limit, and what is subscribed to are topics.
MqttBounds ==
    /\ subscriptions \subseteq Topic \cup {Discovery}
    /\ Len(queue) <= QueueLimit
    /\ announced \in BOOLEAN
    /\ publications \in 0..MaxPublications /\ breaks \in 0..MaxBreaks

LEMMA WithinLimit ==
  ASSUME MqttTypes, Len(queue) <= QueueLimit, NEW messages \in Seq(Message), Deliver(messages)
  PROVE  Len(queue') <= QueueLimit
<1>1. queue \in Seq(Message) /\ Len(queue) \in Nat /\ Len(messages) \in Nat /\ QueueLimit \in Nat
  BY DEF MqttTypes
<1>2. PICK n : n = LeastOf(Len(messages), QueueLimit - Len(queue))
  OBVIOUS
<1>3. n \in Nat /\ n <= Len(messages) /\ n <= QueueLimit - Len(queue)
  BY <1>1, <1>2 DEF LeastOf
<1>4. Fitting(messages) \in Seq(Message) /\ Len(Fitting(messages)) = n
  BY <1>1, <1>2, <1>3 DEF Fitting
<1>5. Len(queue') = Len(queue) + n
  <2>1. PICK some \in Seq(Message) : some = Fitting(messages) /\ Len(some) = n
    BY <1>4
  <2>2. queue' = queue \o some
    BY <2>1 DEF Deliver
  <2>. QED  BY <1>1, <2>1, <2>2
<1>. QED  BY <1>1, <1>3, <1>5

LEMMA MqttBoundsStep ==
  ASSUME MqttInv, MqttBounds, [MqttNext]_<<registryVars, mqttVars>>
  PROVE  MqttBounds'
<1>0. MqttTypes /\ asked \subseteq Topic \cup {Discovery} /\ Len(queue) <= QueueLimit
  BY DEF MqttInv, IngestInv, MqttTypes, MqttBounds
<1>1. ASSUME NEW t, NEW message \in Message, DeliverTo(t, message) PROVE Len(queue') <= QueueLimit
  <2>1. CASE UNCHANGED queue
    BY <1>0, <2>1
  <2>2. CASE Deliver(<<message>>)
    <3>1. PICK one \in Seq(Message) : one = <<message>>
      BY SingleMessage
    <3>. QED  BY <1>0, <2>2, <3>1, WithinLimit
  <2>. QED  BY <1>1, <2>1, <2>2 DEF DeliverTo
<1>2. ASSUME CountPublication PROVE publications' \in 0..MaxPublications
  BY <1>2 DEF CountPublication, MqttBounds
<1>3. ASSUME NEW c \in Announcement, Announce(c) PROVE MqttBounds'
  <2>1. PICK message \in Message : message = Config(c)
    BY MessageFacts
  <2>2. Len(queue') <= QueueLimit
    BY <1>1, <1>3, <2>1 DEF Announce
  <2>. QED  BY <1>2, <1>3, <2>2 DEF Announce, MqttBounds
<1>4. ASSUME NEW t \in Topic, NEW v \in Payload, PublishState(t, v) PROVE MqttBounds'
  <2>1. PICK message \in Message : message = State(t, v)
    BY MessageFacts
  <2>2. Len(queue') <= QueueLimit
    BY <1>1, <1>4, <2>1 DEF PublishState
  <2>. QED  BY <1>2, <1>4, <2>2 DEF PublishState, MqttBounds
<1>5. CASE PublishNoise
  <2>1. Discovery \in Topic \cup {Discovery} /\ Unreadable \in Payload
    BY DEF Payload
  <2>2. PICK message \in Message : message = State(Discovery, Unreadable)
    BY <2>1, MessageFacts
  <2>3. Len(queue') <= QueueLimit
    BY <1>1, <1>5, <2>2 DEF PublishNoise
  <2>. QED  BY <1>2, <1>5, <2>3 DEF PublishNoise, MqttBounds
<1>6. ASSUME NEW x \in asked, Grant(x) PROVE MqttBounds'
  <2>1. IsFiniteSet(Retained(x)) /\ Retained(x) \subseteq Message
    BY <1>0, RetainedFacts
  <2>2. PICK messages \in SetToSeqs(Retained(x)) : Deliver(messages)
    BY <1>6 DEF Grant
  <2>3. messages \in Seq(Retained(x))
    BY <2>1, Listing
  <2>4. messages \in Seq(Message)
    BY <2>1, <2>3
  <2>5. Len(queue') <= QueueLimit
    BY <1>0, <2>2, <2>4, WithinLimit
  <2>. QED  BY <1>0, <1>6, <2>5 DEF Grant, brokerVars, MqttBounds
<1>7. CASE IngestDiscovery \/ IngestState \/ Refuse
  <2>1. queue \in Seq(Message) /\ queue # <<>> /\ queue' = Tail(queue)
    BY <1>0, <1>7 DEF IngestDiscovery, IngestState, Refuse, Take, MqttTypes
  <2>2. Len(queue') <= Len(queue) /\ Len(queue) \in Nat /\ Len(queue') \in Nat
    BY <2>1
  <2>3. Len(queue') <= QueueLimit
    BY <1>0, <2>2
  <2>4. UNCHANGED <<subscriptions, publications, breaks>> /\ announced' \in BOOLEAN
    BY <1>7 DEF IngestDiscovery, IngestState, Refuse, brokerVars, MqttBounds
  <2>. QED  BY <2>3, <2>4 DEF MqttBounds
<1>8. CASE ReportAvailable
  BY <1>8 DEF ReportAvailable, brokerVars, MqttBounds
<1>9. CASE Reconnect
  BY <1>9 DEF Reconnect, CountBreak, brokerVars, MqttBounds
<1>10. CASE Restart
  <2>1. subscriptions' = {} /\ queue' = <<>> /\ announced' = FALSE /\ UNCHANGED publications
    BY <1>10 DEF Restart, brokerVars
  <2>2. breaks' \in 0..MaxBreaks
    BY <1>10 DEF Restart, CountBreak, MqttBounds
  <2>3. Len(queue') <= QueueLimit
    BY <2>1
  <2>. QED  BY <2>1, <2>2, <2>3 DEF MqttBounds
<1>11. CASE UNCHANGED <<registryVars, mqttVars>>
  BY <1>11 DEF mqttVars, brokerVars, MqttBounds
<1>. QED  BY <1>3, <1>4, <1>5, <1>6, <1>7, <1>8, <1>9, <1>10, <1>11 DEF MqttNext

\* RumqttPublisher::connect and the ingest thread: the queue holds messages, never
\* more than its limit, and routes lead from topics to entities.
THEOREM MqttTypeCorrect == MqttSpec => []MqttTypeOK
<1>1. MqttInit => MqttBounds
  <2> SUFFICES ASSUME MqttInit PROVE MqttBounds
    OBVIOUS
  <2>1. queue = <<>>
    BY DEF MqttInit
  <2>2. Len(queue) <= QueueLimit
    BY <2>1
  <2>3. 0 \in 0..MaxPublications /\ 0 \in 0..MaxBreaks
    OBVIOUS
  <2>. QED  BY <2>2, <2>3 DEF MqttInit, MqttBounds
<1>2. ASSUME MqttInv, MqttBounds PROVE MqttTypeOK
  <2>1. MqttTypes /\ queue \in Seq(Message)
    BY <1>2 DEF MqttInv, IngestInv, MqttTypes
  <2>2. ToSet(queue) \subseteq Message
    BY <2>1 DEF ToSet
  <2>. QED  BY <1>2, <2>1, <2>2 DEF MqttTypes, MqttBounds, MqttTypeOK
<1>3. MqttInv /\ MqttBounds /\ [MqttNext]_<<registryVars, mqttVars>> => (MqttInv /\ MqttBounds)'
  BY MqttInvStep, MqttBoundsStep
<1>. QED  BY MqttInvInit, <1>1, <1>2, <1>3, PTL DEF MqttSpec
=============================================================================

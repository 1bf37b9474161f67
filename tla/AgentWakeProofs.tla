--------------------------- MODULE AgentWakeProofs ---------------------------
(***************************************************************************)
(* What holds of an Agent's Wakes for any number of Views, Host windows,   *)
(* tasks, messages, Endpoints and faults.                                  *)
(***************************************************************************)
EXTENDS AgentWake, FiniteSetTheorems, TLAPS

-----------------------------------------------------------------------------
(* The inductive invariant *)

Begun == Dispatched \cup {"consumed"}

(* A Wake and the Attempt it names agree; every other Attempt of the Wake   *)
(* was taken back.                                                          *)
WakeLinks ==
    \A w \in DOMAIN wakes : wakes[w].att # 0 =>
        /\ wakes[w].att \in DOMAIN attempts
        /\ attempts[wakes[w].att].wake = w
        /\ attempts[wakes[w].att].st = wakes[w].st
AttemptLinks ==
    \A a \in DOMAIN attempts :
        /\ attempts[a].wake \in DOMAIN wakes
        /\ attempts[a].st # "revoked" => wakes[attempts[a].wake].att = a

(* The Wait has at most one Wake, in the state that goes with its own. *)
WaitLinks ==
    /\ wait \in {"none", "waiting"} => WaitWake = {}
    /\ wait \in {"triggered", "resumed"} => WaitWake # {}
    /\ \A w, x \in WaitWake : w = x
    /\ \A w \in WaitWake :
         /\ (wait = "triggered") = (wakes[w].st \notin Resolved)
         /\ (wait = "resumed") = (wakes[w].st = "consumed")

(* There is a Wake for each message at most, and one for the Wait. *)
Room ==
    /\ Len(wakes) <= posted + 1
    /\ WaitWake = {} => Len(wakes) <= posted
Marks == \A w \in DOMAIN wakes : wakes[w].kind = "inbox" => wakes[w].mark <= posted

(* A token is out only for an Attempt past the fence, and each View that is *)
(* about to send one is alone with an Attempt whose token is not out.       *)
SentIsBegun ==
    \A a \in AttemptIds : sent[a] > 0 =>
        a \in DOMAIN attempts /\ attempts[a].st \in Begun /\ sent[a] = 1
Senders ==
    \A v \in Views : vw[v].pc = "send" =>
        /\ vw[v].att \in DOMAIN attempts /\ attempts[vw[v].att].st \in Begun
        /\ sent[vw[v].att] = 0
        /\ \A u \in Views : vw[u].pc = "send" /\ vw[u].att = vw[v].att => u = v

(* The claim of the binding, and the Wakes past the fence *)
PastFence == {w \in DOMAIN wakes : wakes[w].st \in Dispatched}
ClaimKept ==
    /\ bind.claim # 0 => bind.claim \in DOMAIN attempts
    /\ bind.phase # "none" => bind.claim # 0
FenceAlone == \A w, x \in PastFence : w = x

(* Views and requests speak of Endpoints, windows and Attempts that exist. *)
MovedOn == \A g \in DOMAIN ep : ep[g].moved # NoWindow => g < Len(ep)
PagesSound ==
    \A v \in Views : vw[v].pc \notin {"none", "dead"} =>
        /\ vw[v].gen \in DOMAIN ep /\ win[v] \in Windows
        /\ vw[v].pc = "prepare" => vw[v].att # 0
LateSound ==
    \A r \in late :
        /\ r.g \in DOMAIN ep /\ win[r.v] \in Windows
        /\ r.op = "prepare" => r.a # 0

Named == \A w \in DOMAIN wakes : (wakes[w].att = 0) = (wakes[w].st \in {"pending", "retired"})
StoreTypes ==
    /\ wakes \in Seq(Wake) /\ Named
    /\ attempts \in Seq(Attempt) /\ Len(attempts) <= MaxAttempts
    /\ wait \in {"none", "waiting", "triggered", "resumed", "cancelled"}
    /\ done \subseteq Tasks /\ posted \in 0 .. MaxMessages
StoreInv ==
    /\ StoreTypes
    /\ WakeLinks /\ AttemptLinks /\ WaitLinks /\ Room /\ Marks /\ EveryMessageAnnounced
EndpointInv ==
    /\ ep \in Seq(Endpoint) /\ Len(ep) <= MaxGeneration /\ MovedOn
    /\ fresh \in 0 .. MaxGeneration
ClaimInv == bind \in Binding /\ ClaimKept /\ FenceAlone
PageInv ==
    /\ vw \in [Views -> View] /\ win \in [Views -> Windows \cup {NoWindow}] /\ late \subseteq Request
    /\ PagesSound /\ LateSound
SendInv == sent \in [AttemptIds -> Nat] /\ SentIsBegun /\ Senders
WakeInv ==
    /\ StoreInv /\ EndpointInv /\ ClaimInv /\ PageInv /\ SendInv
    /\ hooks \subseteq {"attach", "detach"} \X Generations /\ faults \in 0 .. MaxFaults

-----------------------------------------------------------------------------
(* What no step of the store undoes *)

WakeStates == {"pending", "claimed"} \cup Dispatched \cup Resolved
AttemptStates == {"claimed", "revoked", "consumed"} \cup Dispatched
MarkMax == MaxMessages + Cardinality(Tasks)

AttemptsGoOn ==
    \A a \in DOMAIN attempts :
        /\ a \in DOMAIN attempts'
        /\ attempts[a].st \in Begun => attempts'[a].st \in Begun
        /\ attempts'[a].st = "claimed" => attempts[a].st = "claimed"
WakesGoOn ==
    \A w \in DOMAIN wakes :
        /\ w \in DOMAIN wakes'
        /\ wakes[w].st \in Resolved => wakes'[w].st = wakes[w].st
NoneAdded == PastFence' \subseteq PastFence

(* A step that changes none of Wakes, Attempts, Wait, tasks and messages *)
StoreStill == UNCHANGED <<wakes, attempts, wait, done, posted>>

LEMMA Numbers ==
  /\ MaxGeneration \in Nat /\ MaxGeneration # 0 /\ MaxMessages \in Nat
  /\ MaxAttempts \in Nat /\ MaxFaults \in Nat /\ MaxEvents \in Nat
  /\ Cardinality(Tasks) \in Nat /\ MarkMax \in Nat
  /\ \A T \in SUBSET Tasks : IsFiniteSet(T) /\ Cardinality(T) \in 0 .. Cardinality(Tasks)
                             /\ Cardinality(T) \in 0 .. MarkMax
  /\ \A n \in 0 .. MaxMessages : n \in 0 .. MarkMax
<1>1. /\ MaxGeneration \in Nat /\ MaxGeneration # 0 /\ MaxMessages \in Nat
      /\ MaxAttempts \in Nat /\ MaxFaults \in Nat /\ MaxEvents \in Nat
  BY WakeAssumption
<1>2. Cardinality(Tasks) \in Nat
  BY WakeAssumption, FS_CardinalityType
<1>3. \A T \in SUBSET Tasks : IsFiniteSet(T) /\ Cardinality(T) <= Cardinality(Tasks)
  BY WakeAssumption, FS_Subset
<1>4. \A T \in SUBSET Tasks : Cardinality(T) \in Nat
  BY <1>3, FS_CardinalityType
<1> QED BY <1>1, <1>2, <1>3, <1>4 DEF MarkMax

(* A function on 1..n is a sequence of length n. *)
LEMMA FunSeq ==
  ASSUME NEW S, NEW n \in Nat, NEW f \in [1 .. n -> S]
  PROVE  f \in Seq(S) /\ Len(f) = n /\ DOMAIN f = 1 .. n
OBVIOUS

(* The sequences of the store, as functions *)
LEMMA StoreForms ==
  ASSUME StoreInv
  PROVE  /\ Len(wakes) \in Nat /\ DOMAIN wakes = 1 .. Len(wakes)
         /\ Len(attempts) \in Nat /\ DOMAIN attempts = 1 .. Len(attempts)
         /\ \A w \in DOMAIN wakes :
              /\ wakes[w] \in Wake
              /\ wakes[w].kind \in {"inbox", "wait"} /\ wakes[w].st \in WakeStates
              /\ wakes[w].att \in 0 .. MaxAttempts /\ wakes[w].mark \in 0 .. MarkMax
         /\ \A a \in DOMAIN attempts :
              /\ attempts[a] \in Attempt
              /\ attempts[a].st \in AttemptStates
              /\ a \in AttemptIds
<1>1. Len(wakes) \in Nat /\ DOMAIN wakes = 1 .. Len(wakes) /\ \A w \in DOMAIN wakes : wakes[w] \in Wake
  BY DEF StoreInv, StoreTypes
<1>2. Len(attempts) \in Nat /\ DOMAIN attempts = 1 .. Len(attempts)
      /\ \A a \in DOMAIN attempts : attempts[a] \in Attempt
  BY DEF StoreInv, StoreTypes
<1>3. \A k \in Wake : k.kind \in {"inbox", "wait"} /\ k.st \in WakeStates
              /\ k.att \in 0 .. MaxAttempts /\ k.mark \in 0 .. MarkMax
  BY DEF Wake, WakeStates, MarkMax
<1>4. \A t \in Attempt : t.st \in AttemptStates
  BY DEF Attempt, AttemptStates
<1>5. \A a \in DOMAIN attempts : a \in AttemptIds
  BY <1>2, Numbers DEF StoreInv, StoreTypes, AttemptIds
<1> QED BY <1>1, <1>2, <1>3, <1>4, <1>5

(* An Attempt whose state was rewritten *)
LEMMA AttemptForm ==
  ASSUME NEW t \in Attempt, NEW s \in AttemptStates
  PROVE  /\ [t EXCEPT !.st = s] \in Attempt /\ [t EXCEPT !.st = s].st = s
         /\ [t EXCEPT !.st = s].wake = t.wake /\ [t EXCEPT !.st = s].gen = t.gen
         /\ [t EXCEPT !.st = s].how = t.how /\ [t EXCEPT !.st = s].told = t.told
         /\ [t EXCEPT !.st = s].fresh = t.fresh
BY DEF Attempt, AttemptStates

-----------------------------------------------------------------------------
(* Steps that rewrite Wakes and Attempts without adding a Wake or a message *)

Reworked ==
    /\ DOMAIN wakes' = DOMAIN wakes
    /\ \A w \in DOMAIN wakes :
         /\ wakes'[w].kind = wakes[w].kind /\ wakes'[w].mark = wakes[w].mark
         /\ (wakes[w].st \in {"pending", "claimed"}) =>
               \/ wakes'[w].st \in {"pending", "claimed"} \/ wakes'[w].kind = "wait"
               \/ wakes'[w].att # 0 /\ attempts'[wakes'[w].att].told = wakes[w].mark
         /\ (wakes[w].st \notin {"pending", "claimed"} /\ wakes[w].att # 0) =>
               \/ wakes'[w].kind = "wait"
               \/ /\ wakes'[w].att = wakes[w].att
                  /\ attempts'[wakes[w].att].told = attempts[wakes[w].att].told
SameEnds ==
    \A w \in DOMAIN wakes :
        /\ (wakes'[w].st \in Resolved) <=> (wakes[w].st \in Resolved)
        /\ (wakes'[w].st = "consumed") <=> (wakes[w].st = "consumed")

LEMMA ReworkKeeps ==
  ASSUME StoreInv, Reworked, posted' = posted, wakes' \in Seq(Wake)
  PROVE  Room' /\ Marks' /\ EveryMessageAnnounced' /\ WaitWake' = WaitWake
<1>0. /\ Len(wakes) \in Nat /\ DOMAIN wakes = 1 .. Len(wakes)
      /\ \A w \in DOMAIN wakes : wakes[w].mark \in 0 .. MarkMax
  BY StoreForms
<1>1. Len(wakes') \in Nat /\ DOMAIN wakes' = 1 .. Len(wakes')
  OBVIOUS
<1>2. Len(wakes') = Len(wakes)
  BY <1>0, <1>1 DEF Reworked
<1>3. WaitWake' = WaitWake
  BY DEF WaitWake, Reworked
<1>4. Room'
  BY <1>2, <1>3 DEF Room, StoreInv
<1>5. Marks'
  BY DEF Marks, StoreInv, Reworked
<1>6. EveryMessageAnnounced'
  <2> SUFFICES ASSUME NEW m \in 1 .. posted
               PROVE  \E w \in DOMAIN wakes' :
                        /\ wakes'[w].kind = "inbox" /\ wakes'[w].mark >= m
                        /\ \/ wakes'[w].st \in {"pending", "claimed"}
                           \/ wakes'[w].att # 0 /\ attempts'[wakes'[w].att].told >= m
    BY DEF EveryMessageAnnounced
  <2>1. PICK w \in DOMAIN wakes :
            /\ wakes[w].kind = "inbox" /\ wakes[w].mark >= m
            /\ \/ wakes[w].st \in {"pending", "claimed"}
               \/ wakes[w].att # 0 /\ attempts[wakes[w].att].told >= m
    BY DEF StoreInv, EveryMessageAnnounced
  <2>2. w \in DOMAIN wakes' /\ wakes'[w].kind = "inbox" /\ wakes'[w].mark >= m
    BY <2>1 DEF Reworked
  <2>3. CASE wakes[w].st \in {"pending", "claimed"}
    <3>1. \/ wakes'[w].st \in {"pending", "claimed"}
          \/ wakes'[w].att # 0 /\ attempts'[wakes'[w].att].told = wakes[w].mark
      BY <2>2, <2>3 DEF Reworked
    <3> QED BY <1>0, <2>1, <2>2, <3>1
  <2>4. CASE wakes[w].st \notin {"pending", "claimed"}
    <3>1. wakes'[w].att = wakes[w].att /\ attempts'[wakes[w].att].told = attempts[wakes[w].att].told
      BY <2>1, <2>2, <2>4 DEF Reworked
    <3> QED BY <2>1, <2>2, <2>4, <3>1
  <2> QED BY <2>3, <2>4
<1> QED BY <1>3, <1>4, <1>5, <1>6

LEMMA WaitKept ==
  ASSUME WaitLinks, wait' = wait, WaitWake' = WaitWake, SameEnds
  PROVE  WaitLinks'
BY DEF WaitLinks, SameEnds, WaitWake

(* Endpoints lose their carrier: reconcile_wakes_for_endpoint_loss. *)
LEMMA CutForm ==
  ASSUME StoreInv, NEW P, NEW D, reconcile_wakes(P, D)
  PROVE  /\ DOMAIN wakes' = DOMAIN wakes /\ DOMAIN attempts' = DOMAIN attempts
         /\ wakes' \in Seq(Wake) /\ attempts' \in Seq(Attempt) /\ Len(attempts') = Len(attempts)
         /\ \A w \in DOMAIN wakes :
              /\ wakes'[w].kind = wakes[w].kind /\ wakes'[w].mark = wakes[w].mark
              /\ \/ /\ wakes[w].st = "claimed" /\ wakes[w].att # 0 /\ attempts[wakes[w].att].gen \in P
                    /\ wakes'[w].st = "pending" /\ wakes'[w].att = 0
                 \/ /\ wakes[w].st = "prepared" /\ wakes[w].att # 0 /\ attempts[wakes[w].att].gen \in P
                    /\ wakes'[w].st = "delivery_unknown" /\ wakes'[w].att = wakes[w].att
                 \/ /\ wakes[w].st = "delivered" /\ wakes[w].att # 0 /\ attempts[wakes[w].att].gen \in D
                    /\ wakes'[w].st = "delivery_unknown" /\ wakes'[w].att = wakes[w].att
                 \/ /\ ~(wakes[w].st \in {"claimed", "prepared"} /\ wakes[w].att # 0
                           /\ attempts[wakes[w].att].gen \in P)
                    /\ ~(wakes[w].st = "delivered" /\ wakes[w].att # 0
                           /\ attempts[wakes[w].att].gen \in D)
                    /\ wakes'[w].st = wakes[w].st /\ wakes'[w].att = wakes[w].att
         /\ \A a \in DOMAIN attempts :
              /\ attempts'[a].wake = attempts[a].wake /\ attempts'[a].told = attempts[a].told
              /\ attempts'[a].how = attempts[a].how
              /\ \/ /\ attempts[a].st = "claimed" /\ attempts[a].gen \in P
                    /\ attempts'[a].st = "revoked"
                 \/ /\ attempts[a].st = "prepared" /\ attempts[a].gen \in P
                    /\ attempts'[a].st = "delivery_unknown"
                 \/ /\ attempts[a].st = "delivered" /\ attempts[a].gen \in D
                    /\ attempts'[a].st = "delivery_unknown"
                 \/ /\ ~(attempts[a].st \in {"claimed", "prepared"} /\ attempts[a].gen \in P)
                    /\ ~(attempts[a].st = "delivered" /\ attempts[a].gen \in D)
                    /\ attempts'[a].st = attempts[a].st
<1> DEFINE lost(w, G) == wakes[w].att # 0 /\ attempts[wakes[w].att].gen \in G
           cut(w) == CASE wakes[w].st = "claimed" /\ lost(w, P) -> [wakes[w] EXCEPT !.st = "pending", !.att = 0]
                       [] wakes[w].st = "prepared" /\ lost(w, P) -> [wakes[w] EXCEPT !.st = "delivery_unknown"]
                       [] wakes[w].st = "delivered" /\ lost(w, D) -> [wakes[w] EXCEPT !.st = "delivery_unknown"]
                       [] OTHER -> wakes[w]
           st(a) == CASE attempts[a].st = "claimed" /\ attempts[a].gen \in P -> "revoked"
                      [] attempts[a].st = "prepared" /\ attempts[a].gen \in P -> "delivery_unknown"
                      [] attempts[a].st = "delivered" /\ attempts[a].gen \in D -> "delivery_unknown"
                      [] OTHER -> attempts[a].st
<1>0. /\ Len(wakes) \in Nat /\ DOMAIN wakes = 1 .. Len(wakes)
      /\ Len(attempts) \in Nat /\ DOMAIN attempts = 1 .. Len(attempts)
      /\ \A w \in DOMAIN wakes : wakes[w] \in Wake
      /\ \A a \in DOMAIN attempts : attempts[a] \in Attempt /\ attempts[a].st \in AttemptStates
      /\ 0 \in 0 .. MaxAttempts
  BY StoreForms, Numbers
<1>1. wakes' = [w \in DOMAIN wakes |-> cut(w)]
  BY DEF reconcile_wakes, CutWakes
<1>2. attempts' = [a \in DOMAIN attempts |-> [attempts[a] EXCEPT !.st = st(a)]]
  BY DEF reconcile_wakes, CutAttempts
<1>3. ASSUME NEW w \in DOMAIN wakes
      PROVE  /\ cut(w) \in Wake
             /\ cut(w).kind = wakes[w].kind /\ cut(w).mark = wakes[w].mark
             /\ \/ wakes[w].st = "claimed" /\ lost(w, P) /\ cut(w).st = "pending" /\ cut(w).att = 0
                \/ /\ wakes[w].st = "prepared" /\ lost(w, P)
                   /\ cut(w).st = "delivery_unknown" /\ cut(w).att = wakes[w].att
                \/ /\ wakes[w].st = "delivered" /\ lost(w, D)
                   /\ cut(w).st = "delivery_unknown" /\ cut(w).att = wakes[w].att
                \/ /\ ~(wakes[w].st \in {"claimed", "prepared"} /\ lost(w, P))
                   /\ ~(wakes[w].st = "delivered" /\ lost(w, D))
                   /\ cut(w).st = wakes[w].st /\ cut(w).att = wakes[w].att
  <2> HIDE DEF lost
  <2>0. /\ wakes[w] \in Wake /\ "pending" \in WakeStates /\ "delivery_unknown" \in WakeStates
        /\ 0 \in 0 .. MaxAttempts
    BY <1>0 DEF WakeStates, Dispatched
  <2>1. CASE wakes[w].st = "claimed" /\ lost(w, P)
    <3>1. cut(w) = [wakes[w] EXCEPT !.st = "pending", !.att = 0]
      BY <2>1
    <3> HIDE DEF cut
    <3> QED BY <2>0, <2>1, <3>1 DEF Wake, WakeStates
  <2>2. CASE wakes[w].st = "prepared" /\ lost(w, P)
    <3>1. cut(w) = [wakes[w] EXCEPT !.st = "delivery_unknown"]
      BY <2>2
    <3> HIDE DEF cut
    <3> QED BY <2>0, <2>2, <3>1 DEF Wake, WakeStates
  <2>3. CASE wakes[w].st = "delivered" /\ lost(w, D)
    <3>1. cut(w) = [wakes[w] EXCEPT !.st = "delivery_unknown"]
      BY <2>3
    <3> HIDE DEF cut
    <3> QED BY <2>0, <2>3, <3>1 DEF Wake, WakeStates
  <2>4. CASE /\ ~(wakes[w].st \in {"claimed", "prepared"} /\ lost(w, P))
             /\ ~(wakes[w].st = "delivered" /\ lost(w, D))
    <3>1. cut(w) = wakes[w]
      BY <2>4
    <3> HIDE DEF cut
    <3> QED BY <1>0, <2>4, <3>1
  <2> QED BY <2>1, <2>2, <2>3, <2>4
<1>4. ASSUME NEW a \in DOMAIN attempts
      PROVE  /\ st(a) \in AttemptStates
             /\ \/ attempts[a].st = "claimed" /\ attempts[a].gen \in P /\ st(a) = "revoked"
                \/ attempts[a].st = "prepared" /\ attempts[a].gen \in P /\ st(a) = "delivery_unknown"
                \/ attempts[a].st = "delivered" /\ attempts[a].gen \in D /\ st(a) = "delivery_unknown"
                \/ /\ ~(attempts[a].st \in {"claimed", "prepared"} /\ attempts[a].gen \in P)
                   /\ ~(attempts[a].st = "delivered" /\ attempts[a].gen \in D)
                   /\ st(a) = attempts[a].st
  BY <1>0 DEF AttemptStates, Dispatched
<1> HIDE DEF cut, st
<1>5. \A a \in DOMAIN attempts :
        LET t == [attempts[a] EXCEPT !.st = st(a)]
        IN  /\ t \in Attempt /\ t.st = st(a) /\ t.wake = attempts[a].wake
            /\ t.told = attempts[a].told /\ t.how = attempts[a].how
  BY <1>0, <1>4, AttemptForm
<1>6. wakes' \in [1 .. Len(wakes) -> Wake] /\ attempts' \in [1 .. Len(attempts) -> Attempt]
  <2>1. wakes' \in [DOMAIN wakes -> Wake]
    BY <1>1, <1>3
  <2>2. attempts' \in [DOMAIN attempts -> Attempt]
    BY <1>2, <1>5
  <2> QED BY <1>0, <2>1, <2>2
<1>7. wakes' \in Seq(Wake) /\ DOMAIN wakes' = DOMAIN wakes
  BY <1>0, <1>6, FunSeq
<1>8. attempts' \in Seq(Attempt) /\ Len(attempts') = Len(attempts) /\ DOMAIN attempts' = DOMAIN attempts
  BY <1>0, <1>6, FunSeq
<1>9. \A w \in DOMAIN wakes : wakes'[w] = cut(w)
  BY <1>1
<1>10. \A a \in DOMAIN attempts :
         /\ attempts'[a].st = st(a) /\ attempts'[a].wake = attempts[a].wake
         /\ attempts'[a].told = attempts[a].told /\ attempts'[a].how = attempts[a].how
  BY <1>2, <1>5
<1> QED BY <1>3, <1>4, <1>7, <1>8, <1>9, <1>10

LEMMA CutKeeps ==
  ASSUME StoreInv, NEW P, NEW D, reconcile_wakes(P, D), UNCHANGED <<wait, done, posted>>
  PROVE  StoreInv' /\ AttemptsGoOn /\ WakesGoOn /\ NoneAdded
<1> USE CutForm
<1>0. /\ \A w \in DOMAIN wakes : wakes[w].st \in WakeStates
      /\ \A a \in DOMAIN attempts : attempts[a].st \in AttemptStates
  BY StoreForms
<1>1. WakeLinks'
  BY DEF WakeLinks, StoreInv
<1>2. AttemptLinks'
  BY DEF WakeLinks, AttemptLinks, StoreInv
<1>3. Reworked
  BY DEF Reworked, WakeLinks, StoreInv
<1>4. SameEnds
  BY DEF SameEnds, Resolved
<1>5. WaitLinks'
  BY <1>3, <1>4, ReworkKeeps, WaitKept DEF StoreInv
<1>6. Named'
  BY DEF Named, StoreInv, StoreTypes
<1>7. StoreTypes'
  BY <1>6 DEF StoreTypes, StoreInv
<1>8. AttemptsGoOn
  BY DEF AttemptsGoOn, Begun, Dispatched
<1>9. WakesGoOn
  BY DEF WakesGoOn, Resolved
<1>10. NoneAdded
  BY DEF NoneAdded, PastFence, Dispatched
<1> QED BY <1>1, <1>2, <1>3, <1>5, <1>7, <1>8, <1>9, <1>10, ReworkKeeps DEF StoreInv

(* Lapsed claims are released: release_expired_claims_for_agent. *)
LEMMA ReleaseForm ==
  ASSUME StoreInv
  PROVE  /\ ReleasedWakes \in [1 .. Len(wakes) -> Wake]
         /\ ReleasedAttempts \in [1 .. Len(attempts) -> Attempt]
         /\ \A w \in DOMAIN wakes :
              /\ ReleasedWakes[w].kind = wakes[w].kind /\ ReleasedWakes[w].mark = wakes[w].mark
              /\ \/ /\ wakes[w].st = "claimed" /\ Lapsed(wakes[w].att)
                    /\ ReleasedWakes[w].st = "pending" /\ ReleasedWakes[w].att = 0
                 \/ /\ ~(wakes[w].st = "claimed" /\ Lapsed(wakes[w].att))
                    /\ ReleasedWakes[w].st = wakes[w].st /\ ReleasedWakes[w].att = wakes[w].att
         /\ \A a \in DOMAIN attempts :
              /\ ReleasedAttempts[a].wake = attempts[a].wake
              /\ ReleasedAttempts[a].told = attempts[a].told
              /\ ReleasedAttempts[a].how = attempts[a].how
              /\ \/ Lapsed(a) /\ ReleasedAttempts[a].st = "revoked"
                 \/ ~Lapsed(a) /\ ReleasedAttempts[a].st = attempts[a].st
<1>0. /\ Len(wakes) \in Nat /\ DOMAIN wakes = 1 .. Len(wakes)
      /\ Len(attempts) \in Nat /\ DOMAIN attempts = 1 .. Len(attempts)
      /\ \A w \in DOMAIN wakes : wakes[w] \in Wake
      /\ \A a \in DOMAIN attempts : attempts[a] \in Attempt
      /\ 0 \in 0 .. MaxAttempts
  BY StoreForms, Numbers
<1>1. ASSUME NEW w \in DOMAIN wakes
      PROVE  /\ ReleasedWakes[w] \in Wake
             /\ ReleasedWakes[w].kind = wakes[w].kind /\ ReleasedWakes[w].mark = wakes[w].mark
             /\ \/ /\ wakes[w].st = "claimed" /\ Lapsed(wakes[w].att)
                   /\ ReleasedWakes[w].st = "pending" /\ ReleasedWakes[w].att = 0
                \/ /\ ~(wakes[w].st = "claimed" /\ Lapsed(wakes[w].att))
                   /\ ReleasedWakes[w].st = wakes[w].st /\ ReleasedWakes[w].att = wakes[w].att
  <2>0. wakes[w] \in Wake /\ 0 \in 0 .. MaxAttempts
    BY <1>0
  <2>1. CASE wakes[w].st = "claimed" /\ Lapsed(wakes[w].att)
    <3>1. ReleasedWakes[w] = [wakes[w] EXCEPT !.st = "pending", !.att = 0]
      BY <2>1 DEF ReleasedWakes
    <3> QED BY <2>0, <2>1, <3>1 DEF Wake
  <2>2. CASE ~(wakes[w].st = "claimed" /\ Lapsed(wakes[w].att))
    <3>1. ReleasedWakes[w] = wakes[w]
      BY <2>2 DEF ReleasedWakes
    <3> QED BY <2>0, <2>2, <3>1
  <2> QED BY <2>1, <2>2
<1>2. ASSUME NEW a \in DOMAIN attempts
      PROVE  /\ ReleasedAttempts[a] \in Attempt
             /\ ReleasedAttempts[a].wake = attempts[a].wake
             /\ ReleasedAttempts[a].told = attempts[a].told
             /\ ReleasedAttempts[a].how = attempts[a].how
             /\ \/ Lapsed(a) /\ ReleasedAttempts[a].st = "revoked"
                \/ ~Lapsed(a) /\ ReleasedAttempts[a].st = attempts[a].st
  <2>0. attempts[a] \in Attempt
    BY <1>0
  <2>1. CASE Lapsed(a)
    <3>1. ReleasedAttempts[a] = [attempts[a] EXCEPT !.st = "revoked"]
      BY <2>1 DEF ReleasedAttempts
    <3> QED BY <2>0, <2>1, <3>1 DEF Attempt
  <2>2. CASE ~Lapsed(a)
    <3>1. ReleasedAttempts[a] = attempts[a]
      BY <2>2 DEF ReleasedAttempts
    <3> QED BY <2>0, <2>2, <3>1
  <2> QED BY <2>1, <2>2
<1>3. ReleasedWakes \in [DOMAIN wakes -> Wake]
  <2>1. DOMAIN ReleasedWakes = DOMAIN wakes /\ ReleasedWakes = [w \in DOMAIN wakes |-> ReleasedWakes[w]]
    BY DEF ReleasedWakes
  <2> QED BY <1>1, <2>1
<1>4. ReleasedAttempts \in [DOMAIN attempts -> Attempt]
  <2>1. /\ DOMAIN ReleasedAttempts = DOMAIN attempts
        /\ ReleasedAttempts = [a \in DOMAIN attempts |-> ReleasedAttempts[a]]
    BY DEF ReleasedAttempts
  <2> QED BY <1>2, <2>1
<1> QED BY <1>0, <1>1, <1>2, <1>3, <1>4

(* What claim_next_agent_wake leaves: nothing but the release, or one more   *)
(* Attempt for a Wake that was pending.                                      *)
LEMMA ClaimForm ==
  ASSUME StoreInv, gen \in Generations, NEW w \in DOMAIN wakes, ReleasedWakes[w].st = "pending",
         NEW n, n = Len(attempts) + 1, n <= MaxAttempts,
         attempts' = Append(ReleasedAttempts,
                       [wake |-> w, gen |-> gen, how |-> "app", st |-> "claimed",
                        fresh |-> TRUE, told |-> 0]),
         wakes' = [ReleasedWakes EXCEPT ![w].st = "claimed", ![w].att = n]
  PROVE  /\ wakes' \in Seq(Wake) /\ DOMAIN wakes' = DOMAIN wakes
         /\ wakes'[w].kind = wakes[w].kind /\ wakes'[w].mark = wakes[w].mark
         /\ wakes'[w].st = "claimed" /\ wakes'[w].att = n
         /\ \A x \in DOMAIN wakes : x # w => wakes'[x] = ReleasedWakes[x]
         /\ attempts' \in Seq(Attempt) /\ Len(attempts') = n /\ n \in 1 .. MaxAttempts
         /\ DOMAIN attempts' = DOMAIN attempts \cup {n} /\ n \notin DOMAIN attempts
         /\ \A a \in DOMAIN attempts : attempts'[a] = ReleasedAttempts[a]
         /\ attempts'[n].st = "claimed" /\ attempts'[n].wake = w
<1> DEFINE new == [wake |-> w, gen |-> gen, how |-> "app", st |-> "claimed",
                        fresh |-> TRUE, told |-> 0]
<1>0. /\ Len(wakes) \in Nat /\ DOMAIN wakes = 1 .. Len(wakes)
      /\ Len(attempts) \in Nat /\ DOMAIN attempts = 1 .. Len(attempts)
      /\ MaxAttempts \in Nat /\ 0 \in 0 .. MarkMax
  BY StoreForms, Numbers
<1>1. /\ ReleasedWakes \in [1 .. Len(wakes) -> Wake]
      /\ ReleasedAttempts \in [1 .. Len(attempts) -> Attempt]
      /\ ReleasedWakes[w].kind = wakes[w].kind /\ ReleasedWakes[w].mark = wakes[w].mark
  BY ReleaseForm
<1>2. ReleasedAttempts \in Seq(Attempt) /\ Len(ReleasedAttempts) = Len(attempts)
      /\ DOMAIN ReleasedAttempts = DOMAIN attempts
  BY <1>0, <1>1, FunSeq
<1>3. new \in Attempt
  <2>1. w \in 1 .. MaxMessages + 1
    BY <1>0, Numbers DEF StoreInv, StoreTypes, Room
  <2> QED BY <1>0, <2>1 DEF Attempt, MarkMax
<1>4. n \in 1 .. MaxAttempts /\ n \notin DOMAIN attempts
  BY <1>0
<1>5. /\ attempts' \in Seq(Attempt) /\ Len(attempts') = n
      /\ DOMAIN attempts' = DOMAIN attempts \cup {n}
      /\ \A a \in DOMAIN attempts : attempts'[a] = ReleasedAttempts[a]
      /\ attempts'[n] = new
  <2>1. attempts' = Append(ReleasedAttempts, new)
    OBVIOUS
  <2> HIDE DEF new
  <2>2. attempts' \in Seq(Attempt) /\ Len(attempts') = n
    BY <1>0, <1>2, <1>3, <2>1
  <2>3. DOMAIN attempts' = 1 .. n
    BY <2>2
  <2>4. 1 .. n = DOMAIN attempts \cup {n}
    BY <1>0
  <2>5. (\A a \in DOMAIN attempts : attempts'[a] = ReleasedAttempts[a]) /\ attempts'[n] = new
    BY <1>0, <1>2, <1>3, <2>1
  <2> QED BY <2>2, <2>3, <2>4, <2>5
<1>6. ReleasedWakes[w] \in Wake
  BY <1>0, <1>1
<1>7. /\ DOMAIN wakes' = DOMAIN wakes
      /\ \A x \in DOMAIN wakes : x # w => wakes'[x] = ReleasedWakes[x]
      /\ wakes'[w] \in Wake
      /\ wakes'[w].kind = wakes[w].kind /\ wakes'[w].mark = wakes[w].mark
      /\ wakes'[w].st = "claimed" /\ wakes'[w].att = n
  <2>1. /\ DOMAIN wakes' = DOMAIN wakes
        /\ \A x \in DOMAIN wakes : x # w => wakes'[x] = ReleasedWakes[x]
        /\ wakes'[w] = [ReleasedWakes[w] EXCEPT !.st = "claimed", !.att = n]
    BY <1>0, <1>1, <1>6 DEF Wake
  <2>2. LET k == [ReleasedWakes[w] EXCEPT !.st = "claimed", !.att = n]
        IN k \in Wake /\ k.kind = ReleasedWakes[w].kind /\ k.mark = ReleasedWakes[w].mark
             /\ k.st = "claimed" /\ k.att = n
    <3>1. n \in 0 .. MaxAttempts
      BY <1>0, <1>4
    <3> QED BY <1>6, <3>1 DEF Wake
  <2> QED BY <1>1, <2>1, <2>2
<1>8. wakes' \in [1 .. Len(wakes) -> Wake]
  <2>1. \A x \in DOMAIN wakes : wakes'[x] \in Wake
    BY <1>0, <1>1, <1>7
  <2>2. wakes' = [x \in DOMAIN wakes |-> wakes'[x]]
    BY <1>0, <1>1
  <2> QED BY <1>0, <2>1, <2>2
<1>9. wakes' \in Seq(Wake)
  BY <1>0, <1>8, FunSeq
<1> QED BY <1>4, <1>5, <1>7, <1>9

LEMMA ReleaseKeeps ==
  ASSUME StoreInv, wakes' = ReleasedWakes, attempts' = ReleasedAttempts,
         UNCHANGED <<wait, done, posted>>
  PROVE  StoreInv' /\ AttemptsGoOn /\ WakesGoOn /\ NoneAdded
<1>a. /\ Len(wakes) \in Nat /\ DOMAIN wakes = 1 .. Len(wakes)
      /\ Len(attempts) \in Nat /\ DOMAIN attempts = 1 .. Len(attempts)
      /\ \A w \in DOMAIN wakes : wakes[w].st \in WakeStates
      /\ \A a \in DOMAIN attempts : attempts[a].st \in AttemptStates
  BY StoreForms
<1>b. /\ \A w \in DOMAIN wakes :
              /\ wakes'[w].kind = wakes[w].kind /\ wakes'[w].mark = wakes[w].mark
              /\ \/ /\ wakes[w].st = "claimed" /\ Lapsed(wakes[w].att)
                    /\ wakes'[w].st = "pending" /\ wakes'[w].att = 0
                 \/ /\ ~(wakes[w].st = "claimed" /\ Lapsed(wakes[w].att))
                    /\ wakes'[w].st = wakes[w].st /\ wakes'[w].att = wakes[w].att
      /\ \A a \in DOMAIN attempts :
              /\ attempts'[a].wake = attempts[a].wake /\ attempts'[a].told = attempts[a].told
              /\ attempts'[a].how = attempts[a].how
              /\ \/ Lapsed(a) /\ attempts'[a].st = "revoked"
                 \/ ~Lapsed(a) /\ attempts'[a].st = attempts[a].st
  BY ReleaseForm
<1>c. wakes' \in Seq(Wake) /\ DOMAIN wakes' = DOMAIN wakes
  BY <1>a, ReleaseForm, FunSeq
<1>d. attempts' \in Seq(Attempt) /\ Len(attempts') = Len(attempts) /\ DOMAIN attempts' = DOMAIN attempts
  BY <1>a, ReleaseForm, FunSeq
<1>e. \A a \in DOMAIN attempts : Lapsed(a) => attempts[a].st = "claimed"
  BY DEF Lapsed
<1>1. WakeLinks'
  BY <1>b, <1>c, <1>d, <1>e DEF WakeLinks, StoreInv
<1>2. AttemptLinks'
  BY <1>b, <1>c, <1>d, <1>e DEF WakeLinks, AttemptLinks, StoreInv
<1>3. Reworked
  BY <1>b, <1>c, <1>d, <1>e DEF Reworked, WakeLinks, StoreInv
<1>4. SameEnds
  BY <1>b DEF SameEnds, Resolved
<1>5. WaitLinks'
  BY <1>3, <1>4, <1>c, ReworkKeeps, WaitKept DEF StoreInv
<1>6. Named'
  BY <1>b, <1>c DEF Named, StoreInv, StoreTypes
<1>7. StoreTypes'
  BY <1>6, <1>c, <1>d DEF StoreTypes, StoreInv
<1>8. AttemptsGoOn
  BY <1>b, <1>d, <1>e DEF AttemptsGoOn, Begun, Dispatched
<1>9. WakesGoOn
  BY <1>b, <1>c DEF WakesGoOn, Resolved
<1>10. NoneAdded
  BY <1>b, <1>c DEF NoneAdded, PastFence, Dispatched
<1> QED BY <1>1, <1>2, <1>3, <1>5, <1>7, <1>8, <1>9, <1>10, <1>c, ReworkKeeps DEF StoreInv

LEMMA ClaimKeeps ==
  ASSUME StoreInv, gen \in Generations, claim_next_agent_wake, UNCHANGED <<wait, done, posted>>
  PROVE  /\ StoreInv' /\ AttemptsGoOn /\ WakesGoOn /\ NoneAdded
         /\ \E n : /\ bind' = [bind EXCEPT !.claim = n, !.phase = "none"]
                   /\ n = 0 \/ n \in DOMAIN attempts'
<1>1. CASE NextWake = {}
  BY <1>1, ReleaseKeeps DEF claim_next_agent_wake
<1>2. CASE NextWake # {}
  <2>1. PICK w \in NextWake :
          /\ attempts' = Append(ReleasedAttempts,
                       [wake |-> w, gen |-> gen, how |-> "app", st |-> "claimed",
                        fresh |-> TRUE, told |-> 0])
          /\ wakes' = [ReleasedWakes EXCEPT ![w].st = "claimed", ![w].att = Len(attempts) + 1]
          /\ Len(attempts) + 1 <= MaxAttempts
          /\ bind' = [bind EXCEPT !.claim = Len(attempts) + 1, !.phase = "none"]
    BY <1>2 DEF claim_next_agent_wake
  <2>2. w \in DOMAIN wakes /\ ReleasedWakes[w].st = "pending"
    BY DEF NextWake
  <2>3. PICK n : n = Len(attempts) + 1
    OBVIOUS
  <2>a. /\ wakes' \in Seq(Wake) /\ DOMAIN wakes' = DOMAIN wakes
        /\ wakes'[w].kind = wakes[w].kind /\ wakes'[w].mark = wakes[w].mark
        /\ wakes'[w].st = "claimed" /\ wakes'[w].att = n
        /\ \A x \in DOMAIN wakes : x # w => wakes'[x] = ReleasedWakes[x]
        /\ attempts' \in Seq(Attempt) /\ Len(attempts') = n /\ n \in 1 .. MaxAttempts
        /\ DOMAIN attempts' = DOMAIN attempts \cup {n} /\ n \notin DOMAIN attempts
        /\ \A a \in DOMAIN attempts : attempts'[a] = ReleasedAttempts[a]
        /\ attempts'[n].st = "claimed" /\ attempts'[n].wake = w
    BY <2>1, <2>2, <2>3, ClaimForm
  <2>b. /\ \A x \in DOMAIN wakes :
              /\ ReleasedWakes[x].kind = wakes[x].kind /\ ReleasedWakes[x].mark = wakes[x].mark
              /\ \/ /\ wakes[x].st = "claimed" /\ Lapsed(wakes[x].att)
                    /\ ReleasedWakes[x].st = "pending" /\ ReleasedWakes[x].att = 0
                 \/ /\ ~(wakes[x].st = "claimed" /\ Lapsed(wakes[x].att))
                    /\ ReleasedWakes[x].st = wakes[x].st /\ ReleasedWakes[x].att = wakes[x].att
        /\ \A a \in DOMAIN attempts :
              /\ ReleasedAttempts[a].wake = attempts[a].wake
              /\ ReleasedAttempts[a].told = attempts[a].told
              /\ ReleasedAttempts[a].how = attempts[a].how
              /\ \/ Lapsed(a) /\ ReleasedAttempts[a].st = "revoked"
                 \/ ~Lapsed(a) /\ ReleasedAttempts[a].st = attempts[a].st
    BY ReleaseForm
  <2>e. \A a \in DOMAIN attempts : Lapsed(a) => attempts[a].st = "claimed"
    BY DEF Lapsed
  <2>f. wakes[w].st \in {"pending", "claimed"}
        /\ \A a \in DOMAIN attempts : wakes[w].att = a => Lapsed(a)
    BY <2>2, <2>b DEF Named, StoreInv, StoreTypes, WakeLinks
  <2>g. n # 0
    BY <2>a
  <2>4. WakeLinks'
    BY <2>a, <2>b, <2>e, <2>g DEF WakeLinks, StoreInv
  <2>5. AttemptLinks'
    <3> SUFFICES ASSUME NEW a \in DOMAIN attempts'
                 PROVE  /\ attempts'[a].wake \in DOMAIN wakes'
                        /\ attempts'[a].st # "revoked" => wakes'[attempts'[a].wake].att = a
      BY DEF AttemptLinks
    <3>1. CASE a = n
      BY <2>2, <2>a, <3>1
    <3>2. CASE a \in DOMAIN attempts
      <4>1. attempts'[a].wake = attempts[a].wake /\ attempts[a].wake \in DOMAIN wakes
        BY <2>a, <2>b, <3>2 DEF AttemptLinks, StoreInv
      <4>2. ASSUME attempts'[a].st # "revoked" PROVE wakes'[attempts[a].wake].att = a
        <5>1. ~Lapsed(a) /\ attempts[a].st # "revoked"
          BY <2>a, <2>b, <3>2, <4>2
        <5>2. wakes[attempts[a].wake].att = a
          BY <3>2, <5>1 DEF AttemptLinks, StoreInv
        <5>3. attempts[a].wake # w
          BY <2>f, <3>2, <5>1, <5>2
        <5> QED BY <2>a, <2>b, <4>1, <5>1, <5>2, <5>3
      <4> QED BY <2>a, <4>1, <4>2
    <3> QED BY <2>a, <3>1, <3>2
  <2>6. Reworked
    BY <2>a, <2>b, <2>e, <2>f DEF Reworked, WakeLinks, StoreInv
  <2>7. SameEnds
    BY <2>a, <2>b, <2>f DEF SameEnds, Resolved
  <2>8. WaitLinks'
    BY <2>6, <2>7, <2>a, ReworkKeeps, WaitKept DEF StoreInv
  <2>9. Named'
    <3>1. ASSUME NEW x \in DOMAIN wakes
          PROVE  (wakes'[x].att = 0) = (wakes'[x].st \in {"pending", "retired"})
      <4>1. (wakes[x].att = 0) = (wakes[x].st \in {"pending", "retired"})
        BY DEF Named, StoreInv, StoreTypes
      <4>2. CASE x = w
        BY <2>a, <2>g, <4>2
      <4>3. CASE x # w
        BY <2>a, <2>b, <4>1, <4>3
      <4> QED BY <4>2, <4>3
    <3> QED BY <2>a, <3>1 DEF Named
  <2>10. StoreTypes'
    <3>1. Len(attempts') <= MaxAttempts
      BY <2>a, Numbers
    <3> QED BY <2>9, <2>a, <3>1 DEF StoreTypes, StoreInv
  <2>11. AttemptsGoOn
    BY <2>a, <2>b, <2>e DEF AttemptsGoOn, Begun, Dispatched
  <2>12. WakesGoOn
    BY <2>a, <2>b, <2>f DEF WakesGoOn, Resolved
  <2>13. NoneAdded
    BY <2>a, <2>b DEF NoneAdded, PastFence, Dispatched
  <2>14. StoreInv'
    BY <2>4, <2>5, <2>6, <2>8, <2>10, <2>a, ReworkKeeps DEF StoreInv
  <2> QED BY <2>1, <2>3, <2>11, <2>12, <2>13, <2>14, <2>a
<1> QED BY <1>1, <1>2

-----------------------------------------------------------------------------
(* Steps that move one Wake together with its Attempt past the fence, or on *)
(* from there                                                               *)

Moved(a, w, s) ==
    /\ wakes' \in Seq(Wake) /\ DOMAIN wakes' = DOMAIN wakes
    /\ \A x \in DOMAIN wakes : x # w => wakes'[x] = wakes[x]
    /\ wakes'[w].kind = wakes[w].kind /\ wakes'[w].mark = wakes[w].mark
    /\ wakes'[w].att = a /\ wakes'[w].st = s
    /\ attempts' \in Seq(Attempt) /\ Len(attempts') = Len(attempts)
    /\ DOMAIN attempts' = DOMAIN attempts
    /\ \A b \in DOMAIN attempts : b # a => attempts'[b] = attempts[b]
    /\ attempts'[a].wake = attempts[a].wake /\ attempts'[a].how = attempts[a].how
    /\ attempts'[a].st = s
    /\ attempts'[a].told = IF wakes[w].st = "claimed" THEN wakes[w].mark ELSE attempts[a].told

LEMMA MovedKeeps ==
  ASSUME StoreInv, NEW a \in DOMAIN attempts, NEW w, w = attempts[a].wake, wakes[w].att = a,
         wakes[w].st \in {"claimed"} \cup Dispatched, NEW s \in Begun, Moved(a, w, s),
         UNCHANGED <<done, posted>>, wait' \in {"none", "waiting", "triggered", "resumed", "cancelled"},
         WaitWake' = WaitWake => WaitLinks'
  PROVE  /\ StoreInv' /\ AttemptsGoOn /\ WakesGoOn
         /\ PastFence' \subseteq PastFence \cup {w}
         /\ wakes[w].st \in Dispatched => NoneAdded
<1> USE DEF Moved
<1>0. /\ w \in DOMAIN wakes /\ a # 0 /\ attempts[a].st = wakes[w].st
      /\ s \notin {"pending", "claimed", "retired", "revoked"}
  <2>1. w \in DOMAIN wakes
    BY DEF AttemptLinks, StoreInv
  <2>2. a # 0
    BY StoreForms
  <2> QED BY <2>1, <2>2 DEF WakeLinks, StoreInv, Begun, Dispatched
<1>1. WakeLinks'
  BY <1>0 DEF WakeLinks, StoreInv
<1>2. AttemptLinks'
  BY <1>0 DEF AttemptLinks, StoreInv
<1>3. Reworked
  <2> SUFFICES ASSUME NEW x \in DOMAIN wakes
               PROVE  /\ wakes'[x].kind = wakes[x].kind /\ wakes'[x].mark = wakes[x].mark
                      /\ (wakes[x].st \in {"pending", "claimed"}) =>
                           \/ wakes'[x].st \in {"pending", "claimed"} \/ wakes'[x].kind = "wait"
                           \/ wakes'[x].att # 0 /\ attempts'[wakes'[x].att].told = wakes[x].mark
                      /\ (wakes[x].st \notin {"pending", "claimed"} /\ wakes[x].att # 0) =>
                           \/ wakes'[x].kind = "wait"
                           \/ /\ wakes'[x].att = wakes[x].att
                              /\ attempts'[wakes[x].att].told = attempts[wakes[x].att].told
    BY DEF Reworked
  <2>1. CASE x = w
    <3>1. wakes[w].st \in Dispatched => wakes[w].st \notin {"pending", "claimed"}
      BY DEF Dispatched
    <3>2. wakes[w].st # "pending"
      BY DEF Dispatched
    <3> QED BY <1>0, <2>1, <3>1, <3>2
  <2>2. CASE x # w
    <3>1. wakes[x].att # 0 => wakes[x].att \in DOMAIN attempts /\ wakes[x].att # a
      BY <2>2 DEF WakeLinks, StoreInv
    <3> QED BY <2>2, <3>1
  <2> QED BY <2>1, <2>2
<1>4. WaitLinks'
  BY <1>3, ReworkKeeps
<1>5. Named'
  BY <1>0 DEF Named, StoreInv, StoreTypes
<1>6. StoreTypes'
  BY <1>5 DEF StoreTypes, StoreInv
<1>7. AttemptsGoOn
  BY <1>0 DEF AttemptsGoOn
<1>8. WakesGoOn
  BY DEF WakesGoOn, Resolved, Dispatched
<1>10. PastFence' \subseteq PastFence \cup {w}
  BY DEF PastFence
<1>11. ASSUME wakes[w].st \in Dispatched PROVE NoneAdded
  <2>1. w \in PastFence' => w \in PastFence
    BY <1>0, <1>11 DEF PastFence
  <2> QED BY <1>10, <2>1 DEF NoneAdded
<1>12. StoreInv'
  BY <1>1, <1>2, <1>3, <1>4, <1>6, ReworkKeeps DEF StoreInv
<1> QED BY <1>7, <1>8, <1>10, <1>11, <1>12

(* The forms the three steps have in the code *)
LEMMA MovedForm ==
  ASSUME StoreInv, NEW a \in DOMAIN attempts, NEW w, w = attempts[a].wake, wakes[w].att = a,
         NEW s \in Begun, wakes' = [wakes EXCEPT ![w].st = s],
         \/ wakes[w].st # "claimed" /\ attempts' = [attempts EXCEPT ![a].st = s]
         \/ wakes[w].st = "claimed" /\ attempts' = [attempts EXCEPT ![a].st = s, ![a].told = wakes[w].mark]
  PROVE  Moved(a, w, s)
<1>0. /\ Len(wakes) \in Nat /\ DOMAIN wakes = 1 .. Len(wakes)
      /\ Len(attempts) \in Nat /\ DOMAIN attempts = 1 .. Len(attempts)
      /\ \A x \in DOMAIN wakes : wakes[x] \in Wake
      /\ \A b \in DOMAIN attempts : attempts[b] \in Attempt
      /\ w \in DOMAIN wakes /\ wakes[w].mark \in 0 .. MarkMax
  <2>1. w \in DOMAIN wakes
    BY DEF AttemptLinks, StoreInv
  <2> QED BY <2>1, StoreForms
<1>1. s \in WakeStates /\ s \in AttemptStates
  BY DEF Begun, WakeStates, AttemptStates, Resolved
<1>2. /\ DOMAIN wakes' = DOMAIN wakes /\ wakes' = [x \in DOMAIN wakes |-> wakes'[x]]
      /\ \A x \in DOMAIN wakes : x # w => wakes'[x] = wakes[x]
      /\ wakes'[w] = [wakes[w] EXCEPT !.st = s]
  BY <1>0
<1>3. /\ wakes'[w] \in Wake /\ wakes'[w].kind = wakes[w].kind /\ wakes'[w].mark = wakes[w].mark
      /\ wakes'[w].att = a /\ wakes'[w].st = s
  <2>1. wakes[w] \in Wake
    BY <1>0
  <2> QED BY <1>1, <1>2, <2>1 DEF Wake, WakeStates
<1>4. wakes' \in Seq(Wake)
  <2>1. wakes' \in [1 .. Len(wakes) -> Wake]
    BY <1>0, <1>2, <1>3
  <2> QED BY <1>0, <2>1, FunSeq
<1>5. attempts[a] \in Attempt
  BY <1>0
<1>6. /\ DOMAIN attempts' = DOMAIN attempts /\ attempts' = [b \in DOMAIN attempts |-> attempts'[b]]
      /\ \A b \in DOMAIN attempts : b # a => attempts'[b] = attempts[b]
      /\ attempts'[a] \in Attempt
      /\ attempts'[a].wake = attempts[a].wake /\ attempts'[a].how = attempts[a].how
      /\ attempts'[a].st = s
      /\ attempts'[a].told = IF wakes[w].st = "claimed" THEN wakes[w].mark ELSE attempts[a].told
  <2>1. CASE wakes[w].st # "claimed" /\ attempts' = [attempts EXCEPT ![a].st = s]
    <3>1. /\ DOMAIN attempts' = DOMAIN attempts /\ attempts' = [b \in DOMAIN attempts |-> attempts'[b]]
          /\ \A b \in DOMAIN attempts : b # a => attempts'[b] = attempts[b]
          /\ attempts'[a] = [attempts[a] EXCEPT !.st = s]
      BY <1>0, <2>1
    <3>2. /\ attempts'[a] \in Attempt
          /\ attempts'[a].wake = attempts[a].wake /\ attempts'[a].how = attempts[a].how
          /\ attempts'[a].st = s /\ attempts'[a].told = attempts[a].told
      BY <1>1, <1>5, <3>1 DEF Attempt, AttemptStates
    <3> QED BY <2>1, <3>1, <3>2
  <2>2. CASE wakes[w].st = "claimed" /\ attempts' = [attempts EXCEPT ![a].st = s, ![a].told = wakes[w].mark]
    <3>1. /\ DOMAIN attempts' = DOMAIN attempts /\ attempts' = [b \in DOMAIN attempts |-> attempts'[b]]
          /\ \A b \in DOMAIN attempts : b # a => attempts'[b] = attempts[b]
          /\ attempts'[a] = [attempts[a] EXCEPT !.st = s, !.told = wakes[w].mark]
      BY <1>0, <2>2
    <3>2. /\ attempts'[a] \in Attempt
          /\ attempts'[a].wake = attempts[a].wake /\ attempts'[a].how = attempts[a].how
          /\ attempts'[a].st = s /\ attempts'[a].told = wakes[w].mark
      BY <1>0, <1>1, <1>5, <3>1 DEF Attempt, AttemptStates, MarkMax
    <3> QED BY <2>2, <3>1, <3>2
  <2> QED BY <2>1, <2>2
<1>7. attempts' \in [1 .. Len(attempts) -> Attempt]
  BY <1>0, <1>6
<1>8. attempts' \in Seq(Attempt) /\ Len(attempts') = Len(attempts)
  BY <1>0, <1>7, FunSeq
<1> QED BY <1>2, <1>3, <1>4, <1>6, <1>8 DEF Moved

-----------------------------------------------------------------------------
(* The other steps of the store *)

LEMMA ExplicitKeeps ==
  ASSUME StoreInv, gen \in Generations, NEW w \in DOMAIN wakes, accept_explicit_activation(w)
  PROVE  /\ StoreInv' /\ AttemptsGoOn /\ WakesGoOn /\ FenceAlone'
         /\ \E n \in AttemptIds :
              /\ n \notin DOMAIN attempts /\ n \in DOMAIN attempts' /\ attempts'[n].st \in Begun
              /\ sent' = [sent EXCEPT ![n] = 1]
<1> DEFINE new(m) == [wake |-> w, gen |-> gen, how |-> "explicit", st |-> "delivered",
                      fresh |-> FALSE, told |-> m]
<1>0. PICK n : n = Len(attempts) + 1
  OBVIOUS
<1>1. /\ n <= MaxAttempts /\ wakes[w].kind = "inbox" /\ wakes[w].st = "pending"
      /\ attempts' = Append(attempts, new(wakes[w].mark))
      /\ wakes' = [wakes EXCEPT ![w].st = "delivered", ![w].att = n]
      /\ sent' = [sent EXCEPT ![n] = 1]
      /\ UNCHANGED <<wait, done, posted>>
  BY <1>0 DEF accept_explicit_activation
<1>2. /\ Len(wakes) \in Nat /\ DOMAIN wakes = 1 .. Len(wakes)
      /\ Len(attempts) \in Nat /\ DOMAIN attempts = 1 .. Len(attempts)
      /\ \A x \in DOMAIN wakes : wakes[x] \in Wake
      /\ MaxAttempts \in Nat /\ wakes[w].mark \in 0 .. MarkMax
  BY StoreForms, Numbers
<1>3. n \in AttemptIds /\ n \in 0 .. MaxAttempts /\ n # 0 /\ n \notin DOMAIN attempts
  BY <1>0, <1>1, <1>2 DEF AttemptIds
<1>4. new(wakes[w].mark) \in Attempt
  <2>1. w \in 1 .. MaxMessages + 1
    BY <1>2, Numbers DEF StoreInv, StoreTypes, Room
  <2> QED BY <1>2, <2>1 DEF Attempt, MarkMax, Dispatched
<1>5. /\ attempts' \in Seq(Attempt) /\ Len(attempts') = n
      /\ DOMAIN attempts' = DOMAIN attempts \cup {n}
      /\ \A a \in DOMAIN attempts : attempts'[a] = attempts[a]
      /\ attempts'[n] = new(wakes[w].mark)
  <2>1. attempts \in Seq(Attempt)
    BY DEF StoreInv, StoreTypes
  <2> HIDE DEF new
  <2>2. attempts' \in Seq(Attempt) /\ Len(attempts') = n
    BY <1>0, <1>1, <1>2, <1>4, <2>1
  <2>3. DOMAIN attempts' = 1 .. n
    BY <2>2
  <2>4. 1 .. n = DOMAIN attempts \cup {n}
    BY <1>0, <1>2
  <2>5. (\A a \in DOMAIN attempts : attempts'[a] = attempts[a]) /\ attempts'[n] = new(wakes[w].mark)
    BY <1>0, <1>1, <1>2, <1>4, <2>1
  <2> QED BY <2>2, <2>3, <2>4, <2>5
<1>6. /\ attempts'[n].st = "delivered" /\ attempts'[n].wake = w /\ attempts'[n].how = "explicit"
      /\ attempts'[n].told = wakes[w].mark
  BY <1>5
<1> HIDE DEF new
<1>f. wakes' = [x \in DOMAIN wakes |-> wakes'[x]]
  BY <1>1
<1>7. /\ DOMAIN wakes' = DOMAIN wakes
      /\ \A x \in DOMAIN wakes : x # w => wakes'[x] = wakes[x]
      /\ wakes'[w] = [wakes[w] EXCEPT !.st = "delivered", !.att = n]
  <2>1. wakes[w] \in Wake
    BY <1>2
  <2> QED BY <1>1, <1>2, <2>1 DEF Wake
<1>8. /\ wakes'[w] \in Wake /\ wakes'[w].kind = "inbox" /\ wakes'[w].mark = wakes[w].mark
      /\ wakes'[w].st = "delivered" /\ wakes'[w].att = n
  <2>1. wakes[w] \in Wake
    BY <1>2
  <2> QED BY <1>1, <1>3, <1>7, <2>1 DEF Wake, Dispatched
<1>9. wakes' \in Seq(Wake)
  <2>1. wakes' \in [1 .. Len(wakes) -> Wake]
    BY <1>2, <1>7, <1>8, <1>f
  <2> QED BY <1>2, <2>1, FunSeq
<1>g. /\ DOMAIN wakes' = DOMAIN wakes /\ DOMAIN attempts' = DOMAIN attempts \cup {n}
      /\ \A x \in DOMAIN wakes : x # w => wakes'[x] = wakes[x]
      /\ \A a \in DOMAIN attempts : attempts'[a] = attempts[a]
  BY <1>5, <1>7
<1>10. wakes[w].att = 0
  BY <1>1 DEF Named, StoreInv, StoreTypes
<1>11. WakeLinks'
  BY <1>6, <1>8, <1>g DEF WakeLinks, StoreInv
<1>12. AttemptLinks'
  <2>1. \A a \in DOMAIN attempts : a # 0
    BY <1>2
  <2> QED BY <1>6, <1>8, <1>10, <1>g, <2>1 DEF AttemptLinks, StoreInv
<1>13. Reworked
  BY <1>1, <1>3, <1>5, <1>6, <1>7, <1>8 DEF Reworked, WakeLinks, StoreInv
<1>14. SameEnds
  BY <1>1, <1>7, <1>8 DEF SameEnds, Resolved
<1>15. WaitLinks'
  BY <1>1, <1>9, <1>13, <1>14, ReworkKeeps, WaitKept DEF StoreInv
<1>16. Named'
  BY <1>3, <1>8, <1>g DEF Named, StoreInv, StoreTypes
<1>17. StoreTypes'
  BY <1>1, <1>5, <1>9, <1>16 DEF StoreTypes, StoreInv
<1>18. AttemptsGoOn
  BY <1>5 DEF AttemptsGoOn
<1>19. WakesGoOn
  BY <1>1, <1>7 DEF WakesGoOn, Resolved
<1>20. FenceAlone'
  <2>1. \A x \in DOMAIN wakes : wakes[x].st \notin Dispatched
    BY DEF accept_explicit_activation, AnyDispatched
  <2> QED BY <1>g, <2>1 DEF FenceAlone, PastFence
<1>21. StoreInv'
  BY <1>1, <1>9, <1>11, <1>12, <1>13, <1>15, <1>17, ReworkKeeps DEF StoreInv
<1>22. attempts'[n].st \in Begun
  BY <1>6 DEF Begun, Dispatched
<1> QED BY <1>1, <1>3, <1>5, <1>18, <1>19, <1>20, <1>21, <1>22

LEMMA CancelKeeps ==
  ASSUME StoreInv, cancel_agent_wait
  PROVE  StoreInv' /\ AttemptsGoOn /\ WakesGoOn /\ NoneAdded
<1>1. /\ wait' = "cancelled" /\ UNCHANGED <<done, posted>>
      /\ \A w \in WaitWake : wakes[w].st \in {"pending", "claimed"}
  BY DEF cancel_agent_wait, Cancellable, WaitLinks, StoreInv
<1>2. /\ Len(wakes) \in Nat /\ DOMAIN wakes = 1 .. Len(wakes)
      /\ Len(attempts) \in Nat /\ DOMAIN attempts = 1 .. Len(attempts)
      /\ \A w \in DOMAIN wakes : wakes[w] \in Wake
      /\ \A a \in DOMAIN attempts : attempts[a] \in Attempt
      /\ 0 \in 0 .. MaxAttempts
  BY StoreForms, Numbers
<1>3. /\ DOMAIN attempts' = DOMAIN attempts /\ attempts' = [a \in DOMAIN attempts |-> attempts'[a]]
      /\ DOMAIN wakes' = DOMAIN wakes /\ wakes' = [w \in DOMAIN wakes |-> wakes'[w]]
  BY DEF cancel_agent_wait
<1>4. ASSUME NEW a \in DOMAIN attempts
      PROVE  /\ attempts'[a] \in Attempt /\ attempts'[a].wake = attempts[a].wake
             /\ attempts'[a].told = attempts[a].told /\ attempts'[a].how = attempts[a].how
             /\ \/ /\ \E w \in WaitWake : wakes[w].att = a /\ attempts[a].st = "claimed"
                   /\ attempts'[a].st = "revoked"
                \/ /\ ~\E w \in WaitWake : wakes[w].att = a /\ attempts[a].st = "claimed"
                   /\ attempts'[a].st = attempts[a].st
  <2>0. attempts[a] \in Attempt
    BY <1>2
  <2>1. CASE \E w \in WaitWake : wakes[w].att = a /\ attempts[a].st = "claimed"
    <3>1. attempts'[a] = [attempts[a] EXCEPT !.st = "revoked"]
      BY <2>1 DEF cancel_agent_wait
    <3> QED BY <2>0, <2>1, <3>1 DEF Attempt
  <2>2. CASE ~\E w \in WaitWake : wakes[w].att = a /\ attempts[a].st = "claimed"
    <3>1. attempts'[a] = attempts[a]
      BY <2>2 DEF cancel_agent_wait
    <3> QED BY <2>0, <2>2, <3>1
  <2> QED BY <2>1, <2>2
<1>5. ASSUME NEW w \in DOMAIN wakes
      PROVE  /\ wakes'[w] \in Wake /\ wakes'[w].kind = wakes[w].kind /\ wakes'[w].mark = wakes[w].mark
             /\ \/ w \in WaitWake /\ wakes'[w].st = "retired" /\ wakes'[w].att = 0
                \/ w \notin WaitWake /\ wakes'[w].st = wakes[w].st /\ wakes'[w].att = wakes[w].att
  <2>0. wakes[w] \in Wake
    BY <1>2
  <2>1. CASE w \in WaitWake
    <3>1. wakes'[w] = [wakes[w] EXCEPT !.st = "retired", !.att = 0]
      BY <2>1 DEF cancel_agent_wait
    <3> QED BY <1>2, <2>0, <2>1, <3>1 DEF Wake, Resolved
  <2>2. CASE w \notin WaitWake
    <3>1. wakes'[w] = wakes[w]
      BY <2>2 DEF cancel_agent_wait
    <3> QED BY <2>0, <2>2, <3>1
  <2> QED BY <2>1, <2>2
<1>6. wakes' \in Seq(Wake)
  <2>1. wakes' \in [1 .. Len(wakes) -> Wake]
    BY <1>2, <1>3, <1>5
  <2> QED BY <1>2, <2>1, FunSeq
<1>7. attempts' \in Seq(Attempt) /\ Len(attempts') = Len(attempts)
  <2>1. attempts' \in [1 .. Len(attempts) -> Attempt]
    BY <1>2, <1>3, <1>4
  <2> QED BY <1>2, <2>1, FunSeq
<1>8. \A w \in WaitWake : w \in DOMAIN wakes /\ wakes[w].kind = "wait"
  BY DEF WaitWake
<1>9. WakeLinks'
  <2> SUFFICES ASSUME NEW w \in DOMAIN wakes, wakes'[w].att # 0
               PROVE  /\ wakes'[w].att \in DOMAIN attempts
                      /\ attempts'[wakes'[w].att].wake = w
                      /\ attempts'[wakes'[w].att].st = wakes'[w].st
    BY <1>3 DEF WakeLinks
  <2>1. w \notin WaitWake /\ wakes'[w].st = wakes[w].st /\ wakes'[w].att = wakes[w].att
    BY <1>5
  <2>2. /\ wakes[w].att \in DOMAIN attempts /\ attempts[wakes[w].att].wake = w
        /\ attempts[wakes[w].att].st = wakes[w].st
    BY <2>1 DEF WakeLinks, StoreInv
  <2>3. ~\E x \in WaitWake : wakes[x].att = wakes[w].att
    BY <1>8, <2>1, <2>2 DEF WakeLinks, StoreInv
  <2> QED BY <1>4, <2>1, <2>2, <2>3
<1>10. AttemptLinks'
  <2> SUFFICES ASSUME NEW a \in DOMAIN attempts
               PROVE  /\ attempts'[a].wake \in DOMAIN wakes
                      /\ attempts'[a].st # "revoked" => wakes'[attempts'[a].wake].att = a
    BY <1>3 DEF AttemptLinks
  <2>1. attempts'[a].wake = attempts[a].wake /\ attempts[a].wake \in DOMAIN wakes
    BY <1>4 DEF AttemptLinks, StoreInv
  <2>2. ASSUME attempts'[a].st # "revoked" PROVE wakes'[attempts[a].wake].att = a
    <3>1. attempts[a].st # "revoked" /\ wakes[attempts[a].wake].att = a /\ a # 0
      BY <1>2, <1>4, <2>2 DEF AttemptLinks, StoreInv
    <3>2. ASSUME attempts[a].wake \in WaitWake PROVE FALSE
      <4>1. wakes[attempts[a].wake].st = "claimed"
        BY <1>1, <2>1, <3>1, <3>2 DEF Named, StoreInv, StoreTypes
      <4>2. attempts[a].st = "claimed"
        BY <2>1, <3>1, <4>1 DEF WakeLinks, StoreInv
      <4> QED BY <1>4, <2>2, <3>1, <3>2, <4>2
    <3> QED BY <1>5, <2>1, <3>1, <3>2
  <2> QED BY <2>1, <2>2
<1>11. Reworked
  BY <1>3, <1>4, <1>5, <1>8 DEF Reworked, WakeLinks, StoreInv
<1>12. WaitWake' = WaitWake
  BY <1>6, <1>1, <1>11, ReworkKeeps
<1>13. WaitLinks'
  <2>1. \A w \in WaitWake : wakes'[w].st = "retired"
    BY <1>5, <1>8
  <2>2. \A w, x \in WaitWake : w = x
    BY DEF WaitLinks, StoreInv
  <2> QED BY <1>1, <1>12, <2>1, <2>2 DEF WaitLinks, Resolved
<1>14. Named'
  BY <1>3, <1>5 DEF Named, StoreInv, StoreTypes
<1>15. StoreTypes'
  BY <1>1, <1>6, <1>7, <1>14 DEF StoreTypes, StoreInv
<1>16. AttemptsGoOn
  BY <1>3, <1>4 DEF AttemptsGoOn, Begun, Dispatched
<1>17. WakesGoOn
  BY <1>1, <1>3, <1>5 DEF WakesGoOn, Resolved
<1>18. NoneAdded
  BY <1>3, <1>5 DEF NoneAdded, PastFence, Dispatched
<1> QED BY <1>1, <1>6, <1>9, <1>10, <1>11, <1>13, <1>15, <1>16, <1>17, <1>18, ReworkKeeps DEF StoreInv

LEMMA LapseKeeps ==
  ASSUME StoreInv, NEW a \in DOMAIN attempts, ClaimLapses(a)
  PROVE  StoreInv' /\ AttemptsGoOn /\ WakesGoOn /\ NoneAdded
<1>1. attempts' = [attempts EXCEPT ![a].fresh = FALSE] /\ UNCHANGED <<wakes, wait, done, posted>>
  BY DEF ClaimLapses
<1>2. /\ Len(attempts) \in Nat /\ DOMAIN attempts = 1 .. Len(attempts)
      /\ \A b \in DOMAIN attempts : attempts[b] \in Attempt
  BY StoreForms
<1>3. /\ DOMAIN attempts' = DOMAIN attempts /\ attempts' = [b \in DOMAIN attempts |-> attempts'[b]]
      /\ \A b \in DOMAIN attempts : b # a => attempts'[b] = attempts[b]
      /\ attempts'[a] = [attempts[a] EXCEPT !.fresh = FALSE]
  BY <1>1, <1>2
<1>4. /\ attempts'[a] \in Attempt /\ attempts'[a].wake = attempts[a].wake
      /\ attempts'[a].st = attempts[a].st /\ attempts'[a].how = attempts[a].how
      /\ attempts'[a].told = attempts[a].told
  <2>1. attempts[a] \in Attempt
    BY <1>2
  <2> QED BY <1>3, <2>1 DEF Attempt
<1>5. \A b \in DOMAIN attempts :
        /\ attempts'[b] \in Attempt /\ attempts'[b].wake = attempts[b].wake
        /\ attempts'[b].st = attempts[b].st /\ attempts'[b].how = attempts[b].how
        /\ attempts'[b].told = attempts[b].told
  BY <1>2, <1>3, <1>4
<1>6. attempts' \in Seq(Attempt) /\ Len(attempts') = Len(attempts)
  <2>1. attempts' \in [1 .. Len(attempts) -> Attempt]
    BY <1>2, <1>3, <1>5
  <2> QED BY <1>2, <2>1, FunSeq
<1>7. WakeLinks' /\ AttemptLinks'
  BY <1>1, <1>3, <1>5 DEF WakeLinks, AttemptLinks, StoreInv
<1>8. Reworked
  BY <1>1, <1>5 DEF Reworked, WakeLinks, StoreInv
<1>9. wakes' \in Seq(Wake) /\ SameEnds
  BY <1>1 DEF SameEnds, StoreInv, StoreTypes
<1>10. WaitLinks'
  BY <1>1, <1>8, <1>9, ReworkKeeps, WaitKept DEF StoreInv
<1>11. Named'
  BY <1>1 DEF Named, StoreInv, StoreTypes
<1>12. StoreTypes'
  BY <1>1, <1>6, <1>11 DEF StoreTypes, StoreInv
<1>13. AttemptsGoOn /\ WakesGoOn
  BY <1>1, <1>3, <1>5 DEF AttemptsGoOn, WakesGoOn
<1>14. NoneAdded
  BY <1>1, <1>5 DEF NoneAdded, PastFence
<1> QED BY <1>1, <1>7, <1>8, <1>9, <1>10, <1>12, <1>13, <1>14, ReworkKeeps DEF StoreInv

(* Marks are raised, or a Wake is added: nothing else changes. *)
Announces(n) ==
    /\ wakes' \in Seq(Wake) /\ UNCHANGED attempts
    /\ \A w \in DOMAIN wakes :
         /\ w \in DOMAIN wakes' /\ wakes'[w].kind = wakes[w].kind /\ wakes'[w].st = wakes[w].st
         /\ wakes'[w].att = wakes[w].att
         /\ wakes'[w].kind = "inbox" => wakes'[w].mark \in {wakes[w].mark, posted'}
    /\ \A w \in DOMAIN wakes' \ DOMAIN wakes :
         w = n /\ wakes'[w].st = "pending" /\ wakes'[w].att = 0

LEMMA AnnounceKeeps ==
  ASSUME StoreInv, NEW n, Announces(n), posted' \in {posted, posted + 1}, posted' <= MaxMessages,
         done' \subseteq Tasks
  PROVE  /\ WakeLinks' /\ AttemptLinks' /\ AttemptsGoOn /\ WakesGoOn /\ NoneAdded
         /\ (wait' \in {"none", "waiting", "triggered", "resumed", "cancelled"} => StoreTypes')
         /\ \A m \in 1 .. posted :
              \E w \in DOMAIN wakes' :
                /\ wakes'[w].kind = "inbox" /\ wakes'[w].mark >= m
                /\ \/ wakes'[w].st \in {"pending", "claimed"}
                   \/ wakes'[w].att # 0 /\ attempts'[wakes'[w].att].told >= m
<1> USE DEF Announces
<1>0. posted \in Nat /\ posted' \in Nat /\ posted <= posted' /\ posted' \in 0 .. MaxMessages
  BY Numbers DEF StoreInv, StoreTypes
<1>1. WakeLinks'
  BY DEF WakeLinks, StoreInv
<1>2. AttemptLinks'
  BY DEF AttemptLinks, StoreInv
<1>3. Named'
  BY DEF Named, StoreInv, StoreTypes
<1>4. AttemptsGoOn /\ WakesGoOn
  BY DEF AttemptsGoOn, WakesGoOn
<1>5. NoneAdded
  BY DEF NoneAdded, PastFence, Dispatched
<1>6. wait' \in {"none", "waiting", "triggered", "resumed", "cancelled"} => StoreTypes'
  BY <1>0, <1>3 DEF StoreTypes, StoreInv
<1>7. ASSUME NEW m \in 1 .. posted
      PROVE  \E w \in DOMAIN wakes' :
                /\ wakes'[w].kind = "inbox" /\ wakes'[w].mark >= m
                /\ \/ wakes'[w].st \in {"pending", "claimed"}
                   \/ wakes'[w].att # 0 /\ attempts'[wakes'[w].att].told >= m
  <2>1. PICK w \in DOMAIN wakes :
            /\ wakes[w].kind = "inbox" /\ wakes[w].mark >= m
            /\ \/ wakes[w].st \in {"pending", "claimed"}
               \/ wakes[w].att # 0 /\ attempts[wakes[w].att].told >= m
    BY DEF StoreInv, EveryMessageAnnounced
  <2>2. wakes'[w].mark >= m
    BY <1>0, <2>1
  <2> QED BY <2>1, <2>2
<1> QED BY <1>1, <1>2, <1>4, <1>5, <1>6, <1>7

LEMMA AddedForm ==
  ASSUME StoreInv, NEW k \in Wake, wakes' = Append(wakes, k)
  PROVE  /\ wakes' \in Seq(Wake) /\ Len(wakes') = Len(wakes) + 1
         /\ DOMAIN wakes' = DOMAIN wakes \cup {Len(wakes) + 1} /\ Len(wakes) + 1 \notin DOMAIN wakes
         /\ \A w \in DOMAIN wakes : wakes'[w] = wakes[w]
         /\ wakes'[Len(wakes) + 1] = k
<1>0. Len(wakes) \in Nat /\ DOMAIN wakes = 1 .. Len(wakes) /\ wakes \in Seq(Wake)
  BY StoreForms DEF StoreInv, StoreTypes
<1>1. wakes' \in Seq(Wake) /\ Len(wakes') = Len(wakes) + 1
  BY <1>0
<1>2. DOMAIN wakes' = 1 .. Len(wakes) + 1
  BY <1>1
<1>3. 1 .. Len(wakes) + 1 = DOMAIN wakes \cup {Len(wakes) + 1} /\ Len(wakes) + 1 \notin DOMAIN wakes
  BY <1>0
<1>4. (\A w \in DOMAIN wakes : wakes'[w] = wakes[w]) /\ wakes'[Len(wakes) + 1] = k
  BY <1>0
<1> QED BY <1>1, <1>2, <1>3, <1>4

LEMMA NewWakeForm ==
  ASSUME NEW kind \in {"inbox", "wait"}, NEW m \in 0 .. MarkMax
  PROVE  /\ NewWake(kind, m) \in Wake /\ NewWake(kind, m).kind = kind /\ NewWake(kind, m).mark = m
         /\ NewWake(kind, m).st = "pending" /\ NewWake(kind, m).att = 0
BY Numbers DEF NewWake, Wake, MarkMax

LEMMA PostKeeps ==
  ASSUME StoreInv, post_message
  PROVE  StoreInv' /\ AttemptsGoOn /\ WakesGoOn /\ NoneAdded
<1>1. /\ posted' = posted + 1 /\ posted < MaxMessages /\ UNCHANGED <<attempts, wait, done>>
      /\ posted \in Nat /\ posted' \in 0 .. MaxMessages /\ posted' \in 0 .. MarkMax
      /\ posted' <= MaxMessages /\ wait' \in {"none", "waiting", "triggered", "resumed", "cancelled"}
      /\ done' \subseteq Tasks
  <2>1. posted' = posted + 1 /\ posted < MaxMessages /\ UNCHANGED <<attempts, wait, done>>
    BY DEF post_message
  <2>2. posted \in Nat /\ posted' \in 0 .. MaxMessages
    BY <2>1, Numbers DEF StoreInv, StoreTypes
  <2> QED BY <2>1, <2>2, Numbers DEF StoreInv, StoreTypes
<1>2. /\ Len(wakes) \in Nat /\ DOMAIN wakes = 1 .. Len(wakes)
      /\ \A w \in DOMAIN wakes : wakes[w] \in Wake
  BY StoreForms
<1>3. CASE Coalesce # {}
  <2>1. PICK w \in Coalesce : wakes' = [wakes EXCEPT ![w].mark = posted']
    BY <1>3 DEF post_message
  <2>2. w \in DOMAIN wakes /\ wakes[w].kind = "inbox" /\ wakes[w].st \in {"pending", "claimed"}
    BY DEF Coalesce
  <2>f. wakes' = [x \in DOMAIN wakes |-> wakes'[x]]
    BY <2>1
  <2>3. /\ DOMAIN wakes' = DOMAIN wakes
        /\ \A x \in DOMAIN wakes : x # w => wakes'[x] = wakes[x]
        /\ wakes'[w] = [wakes[w] EXCEPT !.mark = posted']
    BY <1>2, <2>1, <2>2
  <2>4. /\ wakes'[w] \in Wake /\ wakes'[w].mark = posted' /\ wakes'[w].att = wakes[w].att
        /\ wakes'[w].kind = wakes[w].kind /\ wakes'[w].st = wakes[w].st
    <3>1. wakes[w] \in Wake
      BY <1>2, <2>2
    <3> QED BY <1>1, <2>3, <3>1 DEF Wake, MarkMax
  <2>5. wakes' \in Seq(Wake) /\ Len(wakes') = Len(wakes)
    <3>1. wakes' \in [1 .. Len(wakes) -> Wake]
      BY <1>2, <2>3, <2>4, <2>f
    <3> QED BY <1>2, <3>1, FunSeq
  <2>6. Announces(0)
    BY <1>1, <2>3, <2>4, <2>5 DEF Announces
  <2>7. \A x \in DOMAIN wakes : wakes'[x].kind = wakes[x].kind /\ wakes'[x].st = wakes[x].st
    BY <2>3, <2>4
  <2>8. WaitWake' = WaitWake /\ SameEnds
    BY <2>3, <2>7 DEF WaitWake, SameEnds
  <2>9. WaitLinks'
    BY <1>1, <2>8, WaitKept DEF StoreInv
  <2>10. Room'
    <3>1. Len(wakes) <= posted + 1 /\ (WaitWake = {} => Len(wakes) <= posted)
      BY DEF Room, StoreInv
    <3>2. Len(wakes') <= posted' + 1 /\ (WaitWake = {} => Len(wakes') <= posted')
      BY <1>1, <1>2, <2>5, <3>1
    <3> QED BY <2>8, <3>2 DEF Room
  <2>11. Marks'
    <3>1. ASSUME NEW x \in DOMAIN wakes, wakes'[x].kind = "inbox" PROVE wakes'[x].mark <= posted'
      <4>1. CASE x = w
        BY <1>1, <2>4, <4>1
      <4>2. CASE x # w
        <5>1. wakes'[x] = wakes[x] /\ wakes[x].mark <= posted /\ wakes[x].mark \in 0 .. MarkMax
          BY <2>3, <3>1, <4>2, StoreForms DEF Marks, StoreInv
        <5> QED BY <1>1, <5>1, Numbers
      <4> QED BY <4>1, <4>2
    <3> QED BY <2>3, <3>1 DEF Marks
  <2>12. EveryMessageAnnounced'
    <3> SUFFICES ASSUME NEW m \in 1 .. posted'
                 PROVE  \E x \in DOMAIN wakes' :
                          /\ wakes'[x].kind = "inbox" /\ wakes'[x].mark >= m
                          /\ \/ wakes'[x].st \in {"pending", "claimed"}
                             \/ wakes'[x].att # 0 /\ attempts'[wakes'[x].att].told >= m
      BY DEF EveryMessageAnnounced
    <3>1. w \in DOMAIN wakes' /\ wakes'[w].mark >= m
      BY <1>1, <2>2, <2>3, <2>4
    <3> QED BY <2>2, <2>4, <3>1
  <2> QED BY <1>1, <2>6, <2>9, <2>10, <2>11, <2>12, AnnounceKeeps DEF StoreInv
<1>4. CASE Coalesce = {}
  <2> DEFINE k == NewWake("inbox", posted')
             n == Len(wakes) + 1
  <2>1. wakes' = Append(wakes, k)
    BY <1>4 DEF post_message
  <2>2. k \in Wake /\ k.kind = "inbox" /\ k.mark = posted' /\ k.st = "pending" /\ k.att = 0
    BY <1>1, NewWakeForm
  <2> HIDE DEF k
  <2>3. /\ wakes' \in Seq(Wake) /\ Len(wakes') = Len(wakes) + 1
        /\ DOMAIN wakes' = DOMAIN wakes \cup {n} /\ n \notin DOMAIN wakes
        /\ \A w \in DOMAIN wakes : wakes'[w] = wakes[w]
        /\ wakes'[n] = k
    BY <2>1, <2>2, AddedForm
  <2> HIDE DEF n
  <2>4. Announces(n)
    BY <1>1, <2>2, <2>3 DEF Announces
  <2>5. WaitWake' = WaitWake
    BY <2>2, <2>3 DEF WaitWake
  <2>6. WaitLinks'
    <3>1. SameEnds
      BY <2>3 DEF SameEnds
    <3> QED BY <1>1, <2>5, <3>1, WaitKept DEF StoreInv
  <2>7. Room'
    <3>1. Len(wakes) <= posted + 1 /\ (WaitWake = {} => Len(wakes) <= posted)
      BY DEF Room, StoreInv
    <3>2. Len(wakes') <= posted' + 1 /\ (WaitWake = {} => Len(wakes') <= posted')
      BY <1>1, <1>2, <2>3, <3>1
    <3> QED BY <2>5, <3>2 DEF Room
  <2>8. Marks'
    <3>1. ASSUME NEW x \in DOMAIN wakes, wakes[x].kind = "inbox" PROVE wakes[x].mark <= posted'
      <4>1. wakes[x].mark <= posted /\ wakes[x].mark \in 0 .. MarkMax
        BY <3>1, StoreForms DEF Marks, StoreInv
      <4> QED BY <1>1, <4>1, Numbers
    <3>2. posted' <= posted'
      BY <1>1
    <3> QED BY <2>2, <2>3, <3>1, <3>2 DEF Marks
  <2>9. EveryMessageAnnounced'
    <3> SUFFICES ASSUME NEW m \in 1 .. posted'
                 PROVE  \E x \in DOMAIN wakes' :
                          /\ wakes'[x].kind = "inbox" /\ wakes'[x].mark >= m
                          /\ \/ wakes'[x].st \in {"pending", "claimed"}
                             \/ wakes'[x].att # 0 /\ attempts'[wakes'[x].att].told >= m
      BY DEF EveryMessageAnnounced
    <3>1. n \in DOMAIN wakes' /\ wakes'[n].mark >= m
      BY <1>1, <2>2, <2>3
    <3> QED BY <2>2, <2>3, <3>1
  <2> QED BY <1>1, <2>4, <2>6, <2>7, <2>8, <2>9, AnnounceKeeps DEF StoreInv
<1> QED BY <1>3, <1>4

(* The Wait sees the end of tasks: record_wait_match and coalesce_wait_wake. *)
LEMMA MatchKeeps ==
  ASSUME StoreInv, NEW T \in SUBSET Tasks, RecordMatch(T), wait \in {"none", "waiting", "triggered"},
         done' \in SUBSET Tasks, UNCHANGED <<attempts, posted>>
  PROVE  StoreInv' /\ AttemptsGoOn /\ WakesGoOn /\ NoneAdded
<1> DEFINE m == Cardinality(T)
<1>0. /\ Len(wakes) \in Nat /\ DOMAIN wakes = 1 .. Len(wakes)
      /\ \A w \in DOMAIN wakes : wakes[w] \in Wake
      /\ m \in 0 .. MarkMax /\ wait' = "triggered"
      /\ posted' = posted /\ posted \in Nat /\ posted' <= MaxMessages
  BY StoreForms, Numbers DEF RecordMatch, StoreInv, StoreTypes
<1> HIDE DEF m
<1>1. CASE WaitWake = {}
  <2> DEFINE k == NewWake("wait", m)
             n == Len(wakes) + 1
  <2>1. wakes' = Append(wakes, k)
    BY <1>1 DEF RecordMatch, m
  <2>2. k \in Wake /\ k.kind = "wait" /\ k.st = "pending" /\ k.att = 0
    BY <1>0, NewWakeForm
  <2> HIDE DEF k
  <2>3. /\ wakes' \in Seq(Wake) /\ Len(wakes') = Len(wakes) + 1
        /\ DOMAIN wakes' = DOMAIN wakes \cup {n} /\ n \notin DOMAIN wakes
        /\ \A w \in DOMAIN wakes : wakes'[w] = wakes[w]
        /\ wakes'[n] = k
    BY <2>1, <2>2, AddedForm
  <2> HIDE DEF n
  <2>4. Announces(n)
    BY <2>2, <2>3 DEF Announces
  <2>5. WaitWake' = {n}
    BY <1>1, <2>2, <2>3 DEF WaitWake
  <2>6. WaitLinks'
    BY <1>0, <2>2, <2>3, <2>5 DEF WaitLinks, Resolved
  <2>7. Room'
    <3>1. Len(wakes) <= posted
      BY <1>1 DEF Room, StoreInv
    <3>2. Len(wakes') <= posted' + 1
      BY <1>0, <2>3, <3>1
    <3> QED BY <2>5, <3>2 DEF Room
  <2>8. Marks'
    BY <1>0, <2>2, <2>3 DEF Marks, StoreInv
  <2>9. EveryMessageAnnounced'
    BY <1>0, <2>4, AnnounceKeeps DEF EveryMessageAnnounced
  <2> QED BY <1>0, <2>4, <2>6, <2>7, <2>8, <2>9, AnnounceKeeps DEF StoreInv
<1>2. CASE WaitWake # {}
  <2>1. /\ DOMAIN wakes' = DOMAIN wakes /\ wakes' = [w \in DOMAIN wakes |-> wakes'[w]]
        /\ \A w \in DOMAIN wakes :
             wakes'[w] = IF w \in WaitWake /\ wakes[w].st \in {"pending", "claimed"}
                         THEN [wakes[w] EXCEPT !.mark = m] ELSE wakes[w]
    BY <1>2 DEF RecordMatch, m
  <2>2. ASSUME NEW w \in DOMAIN wakes
        PROVE  /\ wakes'[w] \in Wake /\ wakes'[w].kind = wakes[w].kind /\ wakes'[w].st = wakes[w].st
               /\ wakes'[w].att = wakes[w].att
               /\ wakes[w].kind = "inbox" => wakes'[w].mark = wakes[w].mark
    <3>0. wakes[w] \in Wake
      BY <1>0
    <3>1. CASE w \in WaitWake /\ wakes[w].st \in {"pending", "claimed"}
      <4>1. wakes'[w] = [wakes[w] EXCEPT !.mark = m] /\ wakes[w].kind = "wait"
        BY <2>1, <3>1 DEF WaitWake
      <4> QED BY <1>0, <3>0, <4>1 DEF Wake, MarkMax
    <3>2. CASE ~(w \in WaitWake /\ wakes[w].st \in {"pending", "claimed"})
      BY <2>1, <3>0, <3>2
    <3> QED BY <3>1, <3>2
  <2>3. wakes' \in Seq(Wake) /\ Len(wakes') = Len(wakes)
    <3>1. wakes' \in [1 .. Len(wakes) -> Wake]
      BY <1>0, <2>1, <2>2
    <3> QED BY <1>0, <3>1, FunSeq
  <2>d. DOMAIN wakes' = DOMAIN wakes
    BY <2>1
  <2>4. Announces(0)
    BY <2>d, <2>2, <2>3 DEF Announces
  <2>5. WaitWake' = WaitWake /\ SameEnds
    BY <2>d, <2>2 DEF WaitWake, SameEnds
  <2>6. wait = "triggered"
    BY <1>2 DEF WaitLinks, StoreInv
  <2>7. WaitLinks'
    BY <1>0, <2>5, <2>6, WaitKept DEF StoreInv
  <2>8. Room'
    BY <1>0, <2>3, <2>5 DEF Room, StoreInv
  <2>9. Marks'
    BY <1>0, <2>d, <2>2 DEF Marks, StoreInv
  <2>10. EveryMessageAnnounced'
    BY <1>0, <2>4, AnnounceKeeps DEF EveryMessageAnnounced
  <2> QED BY <1>0, <2>4, <2>7, <2>8, <2>9, <2>10, AnnounceKeeps DEF StoreInv
<1> QED BY <1>1, <1>2

LEMMA StillKeeps ==
  ASSUME StoreInv, StoreStill
  PROVE  StoreInv' /\ AttemptsGoOn /\ WakesGoOn /\ NoneAdded
<1> USE DEF StoreStill
<1>1. StoreTypes'
  BY DEF StoreInv, StoreTypes, Named
<1>2. WakeLinks' /\ AttemptLinks'
  BY DEF StoreInv, WakeLinks, AttemptLinks
<1>3. WaitWake' = WaitWake
  BY DEF WaitWake
<1>4. WaitLinks'
  BY <1>3 DEF StoreInv, WaitLinks
<1>5. Room' /\ Marks'
  BY <1>3 DEF StoreInv, Room, Marks
<1>6. EveryMessageAnnounced'
  BY DEF StoreInv, EveryMessageAnnounced
<1>7. AttemptsGoOn /\ WakesGoOn /\ NoneAdded
  BY DEF AttemptsGoOn, WakesGoOn, NoneAdded, PastFence
<1> QED BY <1>1, <1>2, <1>4, <1>5, <1>6, <1>7 DEF StoreInv

-----------------------------------------------------------------------------
(* Endpoints *)

EndpointsStay == DOMAIN ep \subseteq DOMAIN ep'

LEMMA EndpointForms ==
  ASSUME EndpointInv
  PROVE  /\ Len(ep) \in Nat /\ gen = Len(ep) /\ DOMAIN ep = 1 .. Len(ep)
         /\ \A g \in DOMAIN ep : ep[g] \in Endpoint /\ g \in Generations
         /\ \A g : Current(g) => g \in DOMAIN ep /\ g = gen /\ gen \in Generations
<1>1. /\ Len(ep) \in Nat /\ gen = Len(ep) /\ DOMAIN ep = 1 .. Len(ep)
      /\ \A g \in DOMAIN ep : ep[g] \in Endpoint
  BY DEF EndpointInv, gen
<1>2. \A g \in DOMAIN ep : g \in Generations
  BY <1>1, Numbers DEF EndpointInv, Generations
<1>3. \A g : Current(g) => g \in DOMAIN ep /\ g = gen
  BY <1>1 DEF Current
<1> QED BY <1>1, <1>2, <1>3

LEMMA EndpointsRewritten ==
  ASSUME EndpointInv, DOMAIN ep' = DOMAIN ep, ep' = [g \in DOMAIN ep |-> ep'[g]],
         \A g \in DOMAIN ep : ep'[g] \in Endpoint /\ ep'[g].moved = ep[g].moved,
         fresh' \in 0 .. MaxGeneration
  PROVE  EndpointInv' /\ EndpointsStay
<1>1. Len(ep) \in Nat /\ DOMAIN ep = 1 .. Len(ep)
  BY EndpointForms
<1>2. ep' \in [1 .. Len(ep) -> Endpoint]
  BY <1>1
<1>3. ep' \in Seq(Endpoint) /\ Len(ep') = Len(ep)
  BY <1>1, <1>2, FunSeq
<1>4. MovedOn'
  BY <1>3 DEF MovedOn, EndpointInv
<1> QED BY <1>3, <1>4 DEF EndpointInv, EndpointsStay

LEMMA EndpointAdded ==
  ASSUME EndpointInv, NEW f, f \in [DOMAIN ep -> Endpoint], NEW e \in Endpoint, e.moved = NoWindow,
         gen < MaxGeneration, ep' = Append(f, e), fresh' \in 0 .. MaxGeneration
  PROVE  EndpointInv' /\ EndpointsStay /\ gen + 1 \in DOMAIN ep' /\ gen + 1 \in Generations
<1>1. Len(ep) \in Nat /\ DOMAIN ep = 1 .. Len(ep) /\ gen = Len(ep)
  BY EndpointForms
<1>2. f \in Seq(Endpoint) /\ Len(f) = Len(ep)
  <2>1. f \in [1 .. Len(ep) -> Endpoint]
    BY <1>1
  <2> QED BY <1>1, <2>1, FunSeq
<1>3. ep' \in Seq(Endpoint) /\ Len(ep') = Len(ep) + 1 /\ ep'[Len(ep) + 1] = e
  BY <1>1, <1>2
<1>4. DOMAIN ep' = 1 .. Len(ep) + 1 /\ Len(ep') <= MaxGeneration
  BY <1>1, <1>3, Numbers
<1>5. MovedOn'
  <2>1. \A g \in 1 .. Len(ep) + 1 : g = Len(ep) + 1 \/ g < Len(ep) + 1
    BY <1>1
  <2>2. \A g \in 1 .. Len(ep) + 1 : ep'[g].moved # NoWindow => g < Len(ep) + 1
    BY <1>3, <2>1
  <2> QED BY <1>3, <1>4, <2>2 DEF MovedOn
<1>6. DOMAIN ep \subseteq DOMAIN ep' /\ gen + 1 \in DOMAIN ep' /\ gen + 1 \in Generations
  BY <1>1, <1>3, <1>4, Numbers DEF Generations
<1> QED BY <1>3, <1>4, <1>5, <1>6 DEF EndpointInv, EndpointsStay

LEMMA NewEndpointForm ==
  ASSUME NEW w \in Windows \cup {NoWindow}
  PROVE  NewEndpoint(w) \in Endpoint /\ NewEndpoint(w).moved = NoWindow
BY DEF Endpoint, NewEndpoint

(* One Endpoint is rewritten. *)
LEMMA EndpointChanged ==
  ASSUME EndpointInv, NEW g \in DOMAIN ep, NEW e \in Endpoint, e.moved = ep[g].moved,
         ep' = [ep EXCEPT ![g] = e], fresh' \in 0 .. MaxGeneration
  PROVE  EndpointInv' /\ EndpointsStay
<1>1. \A h \in DOMAIN ep : ep[h] \in Endpoint
  BY EndpointForms
<1>2. DOMAIN ep' = DOMAIN ep /\ ep' = [h \in DOMAIN ep |-> ep'[h]]
  OBVIOUS
<1>3. \A h \in DOMAIN ep : ep'[h] \in Endpoint /\ ep'[h].moved = ep[h].moved
  BY <1>1
<1> QED BY <1>2, <1>3, EndpointsRewritten

LEMMA LapseEndpoint ==
  ASSUME EndpointInv, EndpointLapses
  PROVE  EndpointInv' /\ EndpointsStay
<1>1. Current(gen) /\ ep' = [ep EXCEPT ![gen].live = FALSE] /\ fresh' = fresh
  BY DEF EndpointLapses, proc
<1>2. gen \in DOMAIN ep /\ ep[gen] \in Endpoint
  BY <1>1, EndpointForms
<1>3. PICK e : e = [ep[gen] EXCEPT !.live = FALSE]
  OBVIOUS
<1>4. e \in Endpoint /\ e.moved = ep[gen].moved
  BY <1>2, <1>3 DEF Endpoint
<1>5. ep' = [ep EXCEPT ![gen] = e]
  BY <1>1, <1>3
<1>6. PICK g : g = gen
  OBVIOUS
<1> QED BY <1>1, <1>2, <1>4, <1>5, <1>6, EndpointChanged DEF EndpointInv

LEMMA AttachEndpoint ==
  ASSUME EndpointInv, attach_agent_endpoint
  PROVE  EndpointInv' /\ EndpointsStay /\ gen + 1 \in Generations
<1> DEFINE old(g) == [ep[g] EXCEPT !.life = IF g \in Attached THEN "expired" ELSE ep[g].life,
                              !.live = ep[g].live /\ g \notin Attached,
                              !.fp = NoView, !.window = NoWindow]
<1>1. PICK f : f = [g \in DOMAIN ep |-> old(g)]
  OBVIOUS
<1>2. gen < MaxGeneration /\ ep' = Append(f, NewEndpoint(NoWindow)) /\ fresh' = fresh
  BY <1>1 DEF attach_agent_endpoint
<1>3. ASSUME NEW g \in DOMAIN ep PROVE old(g) \in Endpoint
  <2>1. ep[g] \in Endpoint
    BY EndpointForms
  <2>2. PICK l : l = IF g \in Attached THEN "expired" ELSE ep[g].life
    OBVIOUS
  <2>3. PICK b : b = (ep[g].live /\ g \notin Attached)
    OBVIOUS
  <2>4. l \in {"attached", "expired", "detached"} /\ b \in BOOLEAN
    BY <2>1, <2>2, <2>3 DEF Endpoint
  <2>5. old(g) = [ep[g] EXCEPT !.life = l, !.live = b, !.fp = NoView, !.window = NoWindow]
    BY <2>2, <2>3
  <2> QED BY <2>1, <2>4, <2>5 DEF Endpoint
<1> HIDE DEF old
<1>4. f \in [DOMAIN ep -> Endpoint]
  BY <1>1, <1>3
<1>5. NewEndpoint(NoWindow) \in Endpoint /\ NewEndpoint(NoWindow).moved = NoWindow
  BY NewEndpointForm
<1> QED BY <1>2, <1>4, <1>5, EndpointAdded DEF EndpointInv

LEMMA DetachEndpoint ==
  ASSUME EndpointInv, NEW g \in DOMAIN ep, detach_agent_endpoint(g)
  PROVE  EndpointInv' /\ EndpointsStay
<1>1. PICK e : e = [ep[g] EXCEPT !.life = "detached", !.live = FALSE, !.capable = FALSE,
                                 !.fp = NoView, !.window = NoWindow]
  OBVIOUS
<1>2. ep[g] \in Endpoint
  BY EndpointForms
<1>3. e \in Endpoint /\ e.moved = ep[g].moved
  BY <1>1, <1>2 DEF Endpoint
<1>4. ep' = [ep EXCEPT ![g] = e] /\ fresh' = fresh
  BY <1>1 DEF detach_agent_endpoint
<1> QED BY <1>3, <1>4, EndpointChanged DEF EndpointInv

LEMMA TakeoverEndpoints ==
  ASSUME EndpointInv, Takeover
  PROVE  EndpointInv' /\ EndpointsStay
<1> DEFINE stale == {g \in Attached : ~ep[g].live}
           new(g) == CASE g \in stale -> [ep[g] EXCEPT !.life = "expired", !.capable = FALSE, !.fp = NoView]
                       [] g \in Attached \ stale -> [ep[g] EXCEPT !.capable = FALSE]
                       [] OTHER -> ep[g]
<1>1. ep' = [g \in DOMAIN ep |-> new(g)] /\ fresh' = 0
  BY DEF Takeover
<1>2. ASSUME NEW g \in DOMAIN ep PROVE new(g) \in Endpoint /\ new(g).moved = ep[g].moved
  <2>0. ep[g] \in Endpoint
    BY EndpointForms
  <2> HIDE DEF stale
  <2>1. CASE g \in stale
    <3>1. new(g) = [ep[g] EXCEPT !.life = "expired", !.capable = FALSE, !.fp = NoView]
      BY <2>1
    <3> HIDE DEF new
    <3> QED BY <2>0, <3>1 DEF Endpoint
  <2>2. CASE g \in Attached \ stale
    <3>1. new(g) = [ep[g] EXCEPT !.capable = FALSE]
      BY <2>2
    <3> HIDE DEF new
    <3> QED BY <2>0, <3>1 DEF Endpoint
  <2>3. CASE g \notin stale /\ g \notin Attached \ stale
    <3>1. new(g) = ep[g]
      BY <2>3
    <3> QED BY <2>0, <3>1
  <2> QED BY <2>1, <2>2, <2>3
<1> HIDE DEF new
<1>3. DOMAIN ep' = DOMAIN ep /\ ep' = [g \in DOMAIN ep |-> ep'[g]]
  BY <1>1
<1>4. \A g \in DOMAIN ep : ep'[g] \in Endpoint /\ ep'[g].moved = ep[g].moved
  BY <1>1, <1>2
<1>5. fresh' \in 0 .. MaxGeneration
  BY <1>1, Numbers
<1> QED BY <1>3, <1>4, <1>5, EndpointsRewritten

LEMMA RegisterEndpoint ==
  ASSUME EndpointInv, NEW v \in Views, NEW g \in DOMAIN ep, win[v] \in Windows,
         register_mcp_app_binding(v, g)
  PROVE  EndpointInv' /\ EndpointsStay
<1>1. CASE UNCHANGED <<ep, fresh>>
  BY <1>1 DEF EndpointInv, EndpointsStay, MovedOn
<1>2. CASE ep' = [ep EXCEPT ![g] = [ep[g] EXCEPT !.capable = TRUE, !.fp = v, !.window = win[v]]]
           /\ fresh' = fresh
  <2>1. PICK e : e = [ep[g] EXCEPT !.capable = TRUE, !.fp = v, !.window = win[v]]
    OBVIOUS
  <2>2. ep[g] \in Endpoint
    BY EndpointForms
  <2>3. e \in Endpoint /\ e.moved = ep[g].moved
    BY <2>1, <2>2 DEF Endpoint
  <2>4. ep' = [ep EXCEPT ![g] = e]
    BY <1>2, <2>1
  <2> QED BY <1>2, <2>3, <2>4, EndpointChanged DEF EndpointInv
<1> QED BY <1>1, <1>2 DEF register_mcp_app_binding

LEMMA UnregisterEndpoint ==
  ASSUME EndpointInv, NEW v \in Views, NEW g \in DOMAIN ep, win[v] \in Windows,
         unregister_mcp_app_binding(v, g)
  PROVE  EndpointInv' /\ EndpointsStay
<1>0. PICK w : w = IF bind.gen = g \/ ep[g].window = win[v] THEN win[v] ELSE NoWindow
  OBVIOUS
<1>1. PICK e : e = [ep[g] EXCEPT !.capable = FALSE, !.fp = NoView, !.window = w]
  OBVIOUS
<1>2. ep[g] \in Endpoint /\ w \in Windows \cup {NoWindow}
  BY <1>0, EndpointForms
<1>3. e \in Endpoint /\ e.moved = ep[g].moved
  BY <1>1, <1>2 DEF Endpoint
<1>4. ep' = [ep EXCEPT ![g] = e] /\ fresh' = fresh
  BY <1>0, <1>1 DEF unregister_mcp_app_binding
<1> QED BY <1>3, <1>4, EndpointChanged DEF EndpointInv

LEMMA RecoverEndpoint ==
  ASSUME EndpointInv, NEW v \in Views, NEW g \in DOMAIN ep, win[v] \in Windows,
         recover_expired_endpoint(v, g), Replays(v, g) \/ Replaces(v, g)
  PROVE  EndpointInv' /\ EndpointsStay /\ g + 1 \in DOMAIN ep' /\ g + 1 \in Generations
<1>0. /\ Len(ep) \in Nat /\ DOMAIN ep = 1 .. Len(ep) /\ gen = Len(ep)
      /\ win[v] # NoWindow /\ ep[g] \in Endpoint
  BY EndpointForms, WakeAssumption
<1>1. CASE Replays(v, g)
  <2>1. UNCHANGED <<ep, fresh>>
    BY <1>1 DEF recover_expired_endpoint
  <2>2. g < Len(ep)
    BY <1>0, <1>1 DEF Replays, EndpointInv, MovedOn
  <2>3. g + 1 \in DOMAIN ep /\ g + 1 \in Generations
    <3>1. g + 1 \in DOMAIN ep
      BY <1>0, <2>2
    <3> QED BY <3>1, EndpointForms
  <2> QED BY <2>1, <2>3 DEF EndpointInv, EndpointsStay, MovedOn
<1>2. CASE ~Replays(v, g)
  <2>0. PICK e : e = [ep[g] EXCEPT !.life = "expired", !.live = FALSE,
                                 !.capable = FALSE, !.fp = NoView, !.moved = win[v]]
    OBVIOUS
  <2>1. PICK f : f = [ep EXCEPT ![g] = e]
    OBVIOUS
  <2>2. g = gen
    BY <1>2 DEF Replaces
  <2>3. gen < MaxGeneration /\ ep' = Append(f, NewEndpoint(win[v])) /\ fresh' = g + 1
    BY <1>2, <2>0, <2>1 DEF recover_expired_endpoint
  <2>4. e \in Endpoint
    BY <1>0, <2>0 DEF Endpoint
  <2>5. f \in [DOMAIN ep -> Endpoint]
    <3>1. \A h \in DOMAIN ep : ep[h] \in Endpoint
      BY EndpointForms
    <3> QED BY <2>1, <2>4, <3>1
  <2>6. NewEndpoint(win[v]) \in Endpoint /\ NewEndpoint(win[v]).moved = NoWindow
    BY NewEndpointForm
  <2>7. g + 1 \in 0 .. MaxGeneration
    BY <1>0, <2>2, <2>3, Numbers
  <2> QED BY <2>2, <2>3, <2>5, <2>6, <2>7, EndpointAdded
<1> QED BY <1>1, <1>2

-----------------------------------------------------------------------------
(* The Server's operations for Views *)

Sound(r) ==
    /\ r \in Request /\ r.g \in DOMAIN ep /\ win[r.v] \in Windows
    /\ r.op = "prepare" => r.a # 0

LEMMA ClaimHeld ==
  ASSUME ClaimInv, AttemptsGoOn, NoneAdded, bind' \in Binding,
         \/ bind' = bind
         \/ bind'.claim = 0 /\ bind'.phase = "none"
         \/ bind'.claim = bind.claim /\ bind.claim # 0 /\ bind'.phase # "none"
  PROVE  ClaimInv'
<1>1. ClaimKept'
  BY DEF ClaimInv, ClaimKept, AttemptsGoOn
<1>2. FenceAlone'
  BY DEF ClaimInv, FenceAlone, NoneAdded
<1> QED BY <1>1, <1>2 DEF ClaimInv

LEMMA BindingForms ==
  Unbound \in Binding /\ Unbound.claim = 0 /\ Unbound.phase = "none"
BY DEF Unbound, Binding

Phases == {"none", "prepared", "accepted", "unknown"}

LEMMA BindingEdit ==
  ASSUME bind \in Binding, bind.gen \in Generations, NEW n \in 0 .. MaxAttempts, NEW p \in Phases,
         \/ bind' = [bind EXCEPT !.claim = n, !.phase = p]
         \/ bind' = [bind EXCEPT !.phase = p] /\ n = bind.claim
  PROVE  bind' \in Binding /\ bind'.claim = n /\ bind'.phase = p
<1>1. bind # Unbound
  BY DEF Unbound, Generations
<1>2. bind \in [gen: Generations, view: Views, claim: 0 .. MaxAttempts, phase: Phases]
  BY <1>1 DEF Binding, Phases
<1>3. bind' \in [gen: Generations, view: Views, claim: 0 .. MaxAttempts, phase: Phases]
  BY <1>2
<1>4. bind'.claim = n /\ bind'.phase = p
  BY <1>2
<1> QED BY <1>3, <1>4 DEF Binding, Phases

LEMMA ClaimType ==
  ASSUME bind \in Binding
  PROVE  bind.claim \in 0 .. MaxAttempts
BY Numbers DEF Binding, Unbound

LEMMA MovedEnds ==
  ASSUME NEW a, NEW w, NEW s \in Dispatched, Moved(a, w, s),
         wakes[w].st \in {"claimed"} \cup Dispatched
  PROVE  SameEnds
<1>1. \A t \in {"claimed"} \cup Dispatched : t \notin Resolved /\ t # "consumed"
  BY DEF Dispatched, Resolved
<1>2. ASSUME NEW x \in DOMAIN wakes
      PROVE  /\ (wakes'[x].st \in Resolved) <=> (wakes[x].st \in Resolved)
             /\ (wakes'[x].st = "consumed") <=> (wakes[x].st = "consumed")
  <2>1. CASE x = w
    <3>1. wakes'[x].st \in {"claimed"} \cup Dispatched /\ wakes[x].st \in {"claimed"} \cup Dispatched
      BY <2>1 DEF Moved
    <3>2. /\ wakes'[x].st \notin Resolved /\ wakes[x].st \notin Resolved
          /\ wakes'[x].st # "consumed" /\ wakes[x].st # "consumed"
      BY <1>1, <3>1
    <3> QED BY <3>2
  <2>2. CASE x # w
    <3>1. wakes'[x] = wakes[x]
      BY <2>2 DEF Moved
    <3> QED BY <3>1
  <2> QED BY <2>1, <2>2
<1> QED BY <1>2 DEF SameEnds

LEMMA RegisterKeeps ==
  ASSUME StoreInv, EndpointInv, ClaimInv, NEW v \in Views, NEW g \in DOMAIN ep, win[v] \in Windows,
         register_mcp_app_binding(v, g), UNCHANGED <<wait, done, posted>>
  PROVE  StoreInv' /\ EndpointInv' /\ EndpointsStay /\ ClaimInv' /\ AttemptsGoOn /\ WakesGoOn
<1>1. EndpointInv' /\ EndpointsStay
  BY RegisterEndpoint
<1>2. reconcile_wakes({g}, {g}) \/ UNCHANGED <<wakes, attempts>>
  BY DEF register_mcp_app_binding
<1>3. StoreInv' /\ AttemptsGoOn /\ WakesGoOn /\ NoneAdded
  BY <1>2, CutKeeps, StillKeeps DEF StoreStill
<1>4. bind' = bind \/ bind' = [gen |-> g, view |-> v, claim |-> 0, phase |-> "none"]
  BY DEF register_mcp_app_binding
<1>5. /\ bind' \in Binding
      /\ bind' = bind \/ (bind'.claim = 0 /\ bind'.phase = "none")
  <2>1. g \in Generations /\ 0 \in 0 .. MaxAttempts
    BY EndpointForms, Numbers
  <2> QED BY <1>4, <2>1 DEF ClaimInv, Binding
<1>6. ClaimInv'
  BY <1>3, <1>5, ClaimHeld
<1> QED BY <1>1, <1>3, <1>6

LEMMA UnregisterKeeps ==
  ASSUME StoreInv, EndpointInv, ClaimInv, NEW v \in Views, NEW g \in DOMAIN ep, win[v] \in Windows,
         unregister_mcp_app_binding(v, g), UNCHANGED <<wait, done, posted>>
  PROVE  StoreInv' /\ EndpointInv' /\ EndpointsStay /\ ClaimInv' /\ AttemptsGoOn /\ WakesGoOn
<1>1. EndpointInv' /\ EndpointsStay
  BY UnregisterEndpoint
<1>2. (reconcile_wakes({g}, {g}) \/ UNCHANGED <<wakes, attempts>>) /\ bind' = Unbound
  BY DEF unregister_mcp_app_binding
<1>3. StoreInv' /\ AttemptsGoOn /\ WakesGoOn /\ NoneAdded
  BY <1>2, CutKeeps, StillKeeps DEF StoreStill
<1>4. ClaimInv'
  BY <1>2, <1>3, BindingForms, ClaimHeld
<1> QED BY <1>1, <1>3, <1>4

LEMMA RecoverKeeps ==
  ASSUME StoreInv, EndpointInv, ClaimInv, NEW v \in Views, NEW g \in DOMAIN ep, win[v] \in Windows,
         recover_expired_endpoint(v, g), Replays(v, g) \/ Replaces(v, g), UNCHANGED <<wait, done, posted>>
  PROVE  /\ StoreInv' /\ EndpointInv' /\ EndpointsStay /\ ClaimInv' /\ AttemptsGoOn /\ WakesGoOn
         /\ g + 1 \in DOMAIN ep'
<1>1. EndpointInv' /\ EndpointsStay /\ g + 1 \in DOMAIN ep'
  BY RecoverEndpoint
<1>2. (reconcile_wakes({g}, {g}) \/ UNCHANGED <<wakes, attempts>>) /\ bind' \in {bind, Unbound}
  BY DEF recover_expired_endpoint
<1>3. StoreInv' /\ AttemptsGoOn /\ WakesGoOn /\ NoneAdded
  BY <1>2, CutKeeps, StillKeeps DEF StoreStill
<1>4. ClaimInv'
  BY <1>2, <1>3, BindingForms, ClaimHeld DEF ClaimInv
<1> QED BY <1>1, <1>3, <1>4

LEMMA AcquireKeeps ==
  ASSUME StoreInv, EndpointInv, ClaimInv, NEW v, NEW g, Carrier(v, g), acquire_mcp_app_wake,
         UNCHANGED <<wait, done, posted>>
  PROVE  StoreInv' /\ EndpointInv' /\ EndpointsStay /\ ClaimInv' /\ AttemptsGoOn /\ WakesGoOn
<1>0. UNCHANGED <<ep, fresh>>
  BY DEF acquire_mcp_app_wake
<1>1. EndpointInv' /\ EndpointsStay
  BY <1>0 DEF EndpointInv, EndpointsStay, MovedOn
<1>2. gen \in Generations /\ bind.gen = gen /\ bind.gen \in Generations
  BY EndpointForms DEF Carrier
<1>3. CASE UNCHANGED <<wakes, attempts, bind>>
  <2>1. StoreInv' /\ AttemptsGoOn /\ WakesGoOn /\ NoneAdded
    BY <1>3, StillKeeps DEF StoreStill
  <2>2. bind' = bind /\ bind' \in Binding
    BY <1>3 DEF ClaimInv
  <2> QED BY <1>1, <2>1, <2>2, ClaimHeld
<1>4. CASE claim_next_agent_wake
  <2>1. StoreInv' /\ AttemptsGoOn /\ WakesGoOn /\ NoneAdded
    BY <1>2, <1>4, ClaimKeeps
  <2>2. PICK n : /\ bind' = [bind EXCEPT !.claim = n, !.phase = "none"]
                 /\ n = 0 \/ n \in DOMAIN attempts'
    BY <1>2, <1>4, ClaimKeeps
  <2>3. n \in 0 .. MaxAttempts
    <3>1. \A a \in DOMAIN attempts' : a \in 1 .. MaxAttempts
      BY <2>1, Numbers DEF StoreInv, StoreTypes
    <3> QED BY <2>2, <3>1, Numbers
  <2>4. bind' \in Binding /\ bind'.claim = n /\ bind'.phase = "none"
    <3>1. "none" \in Phases
      BY DEF Phases
    <3> QED BY <1>2, <2>2, <2>3, <3>1, BindingEdit DEF ClaimInv
  <2>5. CASE n = 0
    BY <1>1, <2>1, <2>4, <2>5, ClaimHeld
  <2>6. CASE n \in DOMAIN attempts'
    <3>1. ClaimInv'
      BY <2>1, <2>4, <2>6 DEF ClaimInv, ClaimKept, FenceAlone, NoneAdded
    <3> QED BY <1>1, <2>1, <3>1
  <2> QED BY <2>2, <2>5, <2>6
<1> QED BY <1>3, <1>4 DEF acquire_mcp_app_wake

LEMMA PrepareKeeps ==
  ASSUME StoreInv, EndpointInv, ClaimInv, NEW v, NEW g, NEW a, a # 0, Preparable(v, g, a),
         prepare_mcp_app_wake(a), UNCHANGED <<wait, done, posted>>
  PROVE  /\ StoreInv' /\ EndpointInv' /\ EndpointsStay /\ ClaimInv' /\ AttemptsGoOn /\ WakesGoOn
         /\ a \in DOMAIN attempts /\ attempts[a].st = "claimed" /\ attempts'[a].st \in Begun
<1>0. UNCHANGED <<ep, fresh>>
  BY DEF prepare_mcp_app_wake
<1>1. EndpointInv' /\ EndpointsStay
  BY <1>0 DEF EndpointInv, EndpointsStay, MovedOn
<1>2. /\ bind.claim = a /\ bind.phase = "none" /\ a \in DOMAIN attempts
      /\ bind.gen \in Generations
  BY EndpointForms DEF Preparable, Carrier, ClaimInv, ClaimKept
<1>3. PICK w : w = attempts[a].wake
  OBVIOUS
<1>4. wakes[w].att = a /\ wakes[w].st = "claimed"
  BY <1>3 DEF Preparable
<1>5. attempts[a].st = "claimed" /\ w \in DOMAIN wakes
  BY <1>2, <1>3, <1>4 DEF StoreInv, WakeLinks, AttemptLinks
<1>6. "prepared" \in Begun /\ "prepared" \in Dispatched
  BY DEF Begun, Dispatched
<1>7. Moved(a, w, "prepared")
  <2>1. /\ wakes' = [wakes EXCEPT ![w].st = "prepared"]
        /\ attempts' = [attempts EXCEPT ![a].st = "prepared", ![a].told = wakes[w].mark]
    BY <1>3 DEF prepare_mcp_app_wake
  <2> QED BY <1>2, <1>3, <1>4, <1>6, <2>1, MovedForm
<1>8. SameEnds
  BY <1>4, <1>6, <1>7, MovedEnds
<1>9. WaitWake' = WaitWake => WaitLinks'
  BY <1>8, WaitKept DEF StoreInv
<1>10. wait' \in {"none", "waiting", "triggered", "resumed", "cancelled"}
  BY DEF StoreInv, StoreTypes
<1>11. /\ StoreInv' /\ AttemptsGoOn /\ WakesGoOn
       /\ PastFence' \subseteq PastFence \cup {w}
  BY <1>2, <1>3, <1>4, <1>6, <1>7, <1>9, <1>10, MovedKeeps
<1>12. PastFence = {}
  BY DEF Preparable, AnyDispatched, PastFence
<1>13. bind' \in Binding /\ bind'.claim = a /\ bind'.phase = "prepared"
  <2>1. bind' = [bind EXCEPT !.phase = "prepared"]
    BY DEF prepare_mcp_app_wake
  <2>2. "prepared" \in Phases
    BY DEF Phases
  <2> QED BY <1>2, <2>1, <2>2, BindingEdit, ClaimType DEF ClaimInv
<1>14. ClaimInv'
  BY <1>2, <1>11, <1>12, <1>13 DEF ClaimInv, ClaimKept, FenceAlone, AttemptsGoOn
<1>15. attempts'[a].st \in Begun
  BY <1>6, <1>7 DEF Moved
<1> QED BY <1>1, <1>2, <1>5, <1>11, <1>14, <1>15

LEMMA FinishKeeps ==
  ASSUME StoreInv, EndpointInv, ClaimInv, NEW v, NEW g, NEW a, NEW out \in BOOLEAN,
         Finishable(v, g, a, out), finish_mcp_app_wake(a, out), UNCHANGED <<wait, done, posted>>
  PROVE  StoreInv' /\ EndpointInv' /\ EndpointsStay /\ ClaimInv' /\ AttemptsGoOn /\ WakesGoOn
<1>0. UNCHANGED <<ep, fresh>>
  BY DEF finish_mcp_app_wake
<1>1. EndpointInv' /\ EndpointsStay
  BY <1>0 DEF EndpointInv, EndpointsStay, MovedOn
<1>2. /\ bind.claim = a /\ bind.phase # "none" /\ a # 0 /\ a \in DOMAIN attempts
      /\ bind.gen \in Generations
  BY EndpointForms DEF Finishable, Carrier, ClaimInv, ClaimKept
<1>3. PICK w : w = attempts[a].wake
  OBVIOUS
<1>4. wakes[w].att = a /\ wakes[w].st \in Dispatched \cup {"consumed"}
  BY <1>3 DEF Finishable, Dispatched
<1>5. PICK s : s = IF out THEN "delivered" ELSE "delivery_unknown"
  OBVIOUS
<1>6. s \in Begun /\ s \in Dispatched
  BY <1>5 DEF Begun, Dispatched
<1>7. StoreInv' /\ AttemptsGoOn /\ WakesGoOn /\ NoneAdded
  <2>1. CASE wakes[w].st = "consumed"
    <3>1. UNCHANGED <<attempts, wakes>>
      BY <1>3, <2>1 DEF finish_mcp_app_wake
    <3> QED BY <3>1, StillKeeps DEF StoreStill
  <2>2. CASE wakes[w].st # "consumed"
    <3>0. wakes[w].st \in Dispatched /\ wakes[w].st # "claimed"
      BY <1>4, <2>2 DEF Dispatched
    <3>1. attempts' = [attempts EXCEPT ![a].st = s] /\ wakes' = [wakes EXCEPT ![w].st = s]
      BY <1>3, <1>5, <2>2 DEF finish_mcp_app_wake
    <3>2. Moved(a, w, s)
      BY <1>2, <1>3, <1>4, <1>6, <3>0, <3>1, MovedForm
    <3>3. SameEnds
      BY <1>6, <3>0, <3>2, MovedEnds
    <3>4. WaitWake' = WaitWake => WaitLinks'
      BY <3>3, WaitKept DEF StoreInv
    <3>5. wait' \in {"none", "waiting", "triggered", "resumed", "cancelled"}
      BY DEF StoreInv, StoreTypes
    <3> QED BY <1>2, <1>3, <1>4, <1>6, <3>0, <3>2, <3>4, <3>5, MovedKeeps
  <2> QED BY <2>1, <2>2
<1>8. bind' \in Binding /\ bind'.claim = bind.claim /\ bind'.phase # "none"
  <2>1. PICK p : p = IF out THEN "accepted" ELSE "unknown"
    OBVIOUS
  <2>2. bind' = [bind EXCEPT !.phase = p]
    BY <2>1 DEF finish_mcp_app_wake
  <2>3. p \in Phases /\ p # "none"
    BY <2>1 DEF Phases
  <2> QED BY <1>2, <2>2, <2>3, BindingEdit, ClaimType DEF ClaimInv
<1>9. ClaimInv'
  BY <1>2, <1>7, <1>8, ClaimHeld
<1> QED BY <1>1, <1>7, <1>9

(* One request at the Server *)
LEMMA ExecuteKeeps ==
  ASSUME StoreInv, EndpointInv, ClaimInv, NEW r, Sound(r), Execute(r)
  PROVE  /\ StoreInv' /\ EndpointInv' /\ EndpointsStay /\ ClaimInv' /\ AttemptsGoOn /\ WakesGoOn
         /\ hooks' = hooks
         /\ r.op = "prepare" =>
              r.a \in DOMAIN attempts /\ attempts[r.a].st = "claimed" /\ attempts'[r.a].st \in Begun
         /\ r.op = "recover" => r.g + 1 \in DOMAIN ep'
<1>0. /\ r.op \in {"bind", "unbind", "acquire", "prepare", "finish", "recover"}
      /\ r.v \in Views /\ r.out \in BOOLEAN /\ r.g \in DOMAIN ep /\ win[r.v] \in Windows
  BY DEF Sound, Request
<1>1. UNCHANGED <<wait, done, posted>> /\ hooks' = hooks
  BY DEF Execute
<1>2. CASE r.op = "bind"
  <2>1. register_mcp_app_binding(r.v, r.g)
    BY <1>2 DEF Execute
  <2> QED BY <1>0, <1>1, <1>2, <2>1, RegisterKeeps
<1>3. CASE r.op = "unbind"
  <2>1. unregister_mcp_app_binding(r.v, r.g)
    BY <1>3 DEF Execute
  <2> QED BY <1>0, <1>1, <1>3, <2>1, UnregisterKeeps
<1>4. CASE r.op = "acquire"
  <2>1. acquire_mcp_app_wake /\ Carrier(r.v, r.g)
    BY <1>4 DEF Execute, Accepted
  <2> QED BY <1>1, <1>4, <2>1, AcquireKeeps
<1>5. CASE r.op = "prepare"
  <2>1. prepare_mcp_app_wake(r.a) /\ Preparable(r.v, r.g, r.a) /\ r.a # 0
    BY <1>5 DEF Execute, Accepted, Sound
  <2> QED BY <1>1, <1>5, <2>1, PrepareKeeps
<1>6. CASE r.op = "finish"
  <2>1. finish_mcp_app_wake(r.a, r.out) /\ Finishable(r.v, r.g, r.a, r.out)
    BY <1>6 DEF Execute, Accepted
  <2> QED BY <1>0, <1>1, <1>6, <2>1, FinishKeeps
<1>7. CASE r.op = "recover"
  <2>1. recover_expired_endpoint(r.v, r.g) /\ (Replays(r.v, r.g) \/ Replaces(r.v, r.g))
    BY <1>7 DEF Execute, Accepted
  <2> QED BY <1>0, <1>1, <1>7, <2>1, RecoverKeeps
<1> QED BY <1>0, <1>2, <1>3, <1>4, <1>5, <1>6, <1>7

-----------------------------------------------------------------------------
(* Views *)

(* View v turned to y. *)
Turned(v, y) ==
    /\ y \in View /\ vw' = [vw EXCEPT ![v] = y]
    /\ y.pc \notin {"none", "dead"} => y.gen \in DOMAIN ep' /\ win'[v] \in Windows
    /\ y.pc = "prepare" => y.att # 0

LEMMA PageTurned ==
  ASSUME PageInv, EndpointsStay, NEW v \in Views, NEW y, Turned(v, y),
         win' = win, late' \subseteq Request, \A r \in late' : r \in late \/ Sound(r)
  PROVE  PageInv'
<1>1. vw' \in [Views -> View]
  BY DEF PageInv, Turned
<1>2. \A u \in Views : vw'[u] = IF u = v THEN y ELSE vw[u]
  BY DEF PageInv, Turned
<1>3. PagesSound'
  BY <1>2 DEF PageInv, PagesSound, EndpointsStay, Turned
<1>4. LateSound'
  BY DEF PageInv, LateSound, EndpointsStay, Sound
<1> QED BY <1>1, <1>3, <1>4 DEF PageInv

LEMMA PagesStill ==
  ASSUME PageInv, EndpointsStay, UNCHANGED <<vw, win>>, late' \subseteq late
  PROVE  PageInv'
<1>1. PagesSound' /\ LateSound'
  BY DEF PageInv, PagesSound, LateSound, EndpointsStay
<1> QED BY <1>1 DEF PageInv

LEMMA SendHeld ==
  ASSUME SendInv, AttemptsGoOn, sent' = sent,
         \A v \in Views : vw'[v].pc = "send" => vw'[v] = vw[v]
  PROVE  SendInv'
<1>1. SentIsBegun'
  BY DEF SendInv, SentIsBegun, AttemptsGoOn
<1>2. Senders'
  BY DEF SendInv, Senders, AttemptsGoOn
<1> QED BY <1>1, <1>2 DEF SendInv

LEMMA SendTurned ==
  ASSUME SendInv, PageInv, AttemptsGoOn, sent' = sent, NEW v \in Views, NEW y, Turned(v, y), y.pc # "send"
  PROVE  SendInv'
<1>1. \A u \in Views : vw'[u] = IF u = v THEN y ELSE vw[u]
  BY DEF PageInv, Turned
<1>2. \A u \in Views : vw'[u].pc = "send" => vw'[u] = vw[u]
  BY <1>1
<1> QED BY <1>2, SendHeld

LEMMA ViewForms ==
  ASSUME PageInv, NEW v \in Views
  PROVE  /\ vw[v] \in View /\ vw[v].out \in BOOLEAN
         /\ vw[v].gen \in 0 .. MaxGeneration /\ vw[v].att \in 0 .. MaxAttempts
         /\ vw[v].pend \in 0 .. MaxAttempts
<1>1. vw[v] \in View
  BY DEF PageInv
<1> QED BY <1>1 DEF View

Pcs == {"none", "new", "beat", "acquire", "prepare", "probe", "send", "finish",
        "hop", "rebind", "stuck", "dead"}

LEMMA GotoForm ==
  ASSUME PageInv, NEW v \in Views, NEW pc \in Pcs
  PROVE  /\ Goto(v, pc) \in View /\ Goto(v, pc).pc = pc /\ Goto(v, pc).gen = vw[v].gen
         /\ Goto(v, pc).att = vw[v].att
<1>1. vw[v] \in View
  BY ViewForms
<1> QED BY <1>1 DEF Goto, View, Pcs

LEMMA IdleForm ==
  ASSUME NEW x \in View
  PROVE  Idle(x) \in View /\ Idle(x).pc = "beat" /\ Idle(x).gen = x.gen
<1>1. PICK b : b = (x.pend # 0 /\ x.out)
  OBVIOUS
<1>2. b \in BOOLEAN
  BY <1>1 DEF View
<1>3. Idle(x) = [x EXCEPT !.pc = "beat", !.att = 0, !.out = b]
  BY <1>1 DEF Idle
<1>4. 0 \in 0 .. MaxAttempts
  BY Numbers
<1>5. PICK y : y = Idle(x)
  OBVIOUS
<1>6. y \in View /\ y.pc = "beat" /\ y.gen = x.gen
  BY <1>2, <1>3, <1>4, <1>5 DEF View
<1> QED BY <1>5, <1>6

LEMMA ResetForm ==
  ASSUME NEW pc \in Pcs, NEW g \in 0 .. MaxGeneration
  PROVE  Reset(pc, g) \in View /\ Reset(pc, g).pc = pc /\ Reset(pc, g).gen = g
<1>1. 0 \in 0 .. MaxAttempts
  BY Numbers
<1> QED BY <1>1 DEF Reset, NoPage, View, Pcs

LEMMA RequestsSound ==
  ASSUME PageInv, EndpointInv, NEW v \in Views, NEW r \in RequestsOf(v)
  PROVE  /\ Sound(r) /\ r.v = v /\ r.g = vw[v].gen
         /\ r.op = "prepare" => vw[v].pc = "prepare" /\ r.a = vw[v].att
         /\ vw[v].pc \in {"new", "acquire", "prepare", "finish", "hop", "rebind", "beat"}
         /\ vw[v].gen \in DOMAIN ep /\ win[v] \in Windows
<1> DEFINE x == vw[v]
           req(op, a) == [op |-> op, v |-> v, g |-> x.gen, a |-> a, out |-> op = "finish" /\ x.out]
<1>1. /\ x.pc \in {"new", "acquire", "prepare", "finish", "hop", "rebind", "beat"}
      /\ \E op \in {"bind", "acquire", "prepare", "finish", "recover"} :
           \E a \in {0, x.att, x.pend} :
             r = req(op, a) /\ (op = "prepare" => a = x.att /\ x.pc = "prepare")
  BY DEF RequestsOf
<1>2. x.gen \in DOMAIN ep /\ win[v] \in Windows /\ (x.pc = "prepare" => x.att # 0)
  BY <1>1 DEF PageInv, PagesSound
<1>3. x.gen \in Generations
  BY <1>2, EndpointForms
<1>4. PICK op \in {"bind", "acquire", "prepare", "finish", "recover"}, a \in {0, x.att, x.pend} :
         r = req(op, a) /\ (op = "prepare" => a = x.att /\ x.pc = "prepare")
  BY <1>1
<1>5. a \in 0 .. MaxAttempts
  BY ViewForms, Numbers
<1>6. PICK b : b = (op = "finish" /\ x.out)
  OBVIOUS
<1>7. b \in BOOLEAN
  BY <1>6, ViewForms
<1>8. r = [op |-> op, v |-> v, g |-> x.gen, a |-> a, out |-> b]
  BY <1>4, <1>6
<1>9. r \in Request /\ r.v = v /\ r.g = x.gen /\ r.op = op /\ r.a = a
  BY <1>3, <1>5, <1>7, <1>8 DEF Request
<1> QED BY <1>1, <1>2, <1>4, <1>9 DEF Sound

LEMMA FailureForms ==
  ASSUME PageInv, NEW v \in Views, NEW y \in AfterFailure(v)
  PROVE  y \in View /\ y.gen = vw[v].gen /\ y.pc \notin {"send", "prepare", "none", "dead"}
<1> DEFINE x == vw[v]
<1>0. x \in View
  BY ViewForms
<1>1. CASE x.pc = "new"
  <2>1. y = x \/ y = Goto(v, "rebind")
    BY <1>1 DEF AfterFailure
  <2>2. "rebind" \in Pcs
    BY DEF Pcs
  <2> QED BY <1>0, <1>1, <2>1, <2>2, GotoForm
<1>2. CASE x.pc = "prepare"
  <2>1. y = [x EXCEPT !.pc = "probe", !.unsure = x.att]
    BY <1>2 DEF AfterFailure
  <2> HIDE DEF x
  <2>2. y \in View /\ y.gen = x.gen /\ y.pc = "probe"
    BY <1>0, <2>1 DEF View
  <2> QED BY <2>2 DEF x
<1>3. CASE x.pc = "finish"
  <2>1. PICK z : z = [x EXCEPT !.pend = x.att]
    OBVIOUS
  <2>2. y = Idle(z)
    BY <1>3, <2>1 DEF AfterFailure
  <2> HIDE DEF x
  <2>3. z \in View /\ z.gen = x.gen
    BY <1>0, <2>1 DEF View
  <2>4. y \in View /\ y.gen = x.gen /\ y.pc = "beat"
    BY <2>2, <2>3, IdleForm
  <2> QED BY <2>4 DEF x
<1>4. CASE x.pc = "hop"
  <2>1. y = Goto(v, "new") /\ "new" \in Pcs
    BY <1>4 DEF AfterFailure, Pcs
  <2> QED BY <2>1, GotoForm
<1>5. CASE x.pc = "rebind"
  <2>1. y = Goto(v, "stuck") /\ "stuck" \in Pcs
    BY <1>5 DEF AfterFailure, Pcs
  <2> QED BY <2>1, GotoForm
<1>6. CASE x.pc \notin {"new", "prepare", "finish", "hop", "rebind"}
  <2>1. y = Idle(x)
    BY <1>6 DEF AfterFailure
  <2> QED BY <1>0, <2>1, IdleForm
<1> QED BY <1>1, <1>2, <1>3, <1>4, <1>5, <1>6

-----------------------------------------------------------------------------
(* The invariant is inductive: one lemma per action or group of actions *)

Goes == WakeInv' /\ WakesGoOn

(* Steps of the Server or of the store by itself *)
LEMMA ServerStep ==
  ASSUME WakeInv, StoreInv', AttemptsGoOn, WakesGoOn, EndpointInv', EndpointsStay, ClaimInv',
         UNCHANGED <<vw, win, late, sent>>, faults' \in 0 .. MaxFaults,
         hooks' \subseteq {"attach", "detach"} \X Generations
  PROVE  Goes
<1>1. PageInv'
  BY PagesStill DEF WakeInv
<1>2. SendInv'
  BY SendHeld DEF WakeInv
<1> QED BY <1>1, <1>2 DEF WakeInv, Goes

LEMMA StoreStep ==
  ASSUME WakeInv, StoreInv', AttemptsGoOn, WakesGoOn, NoneAdded,
         UNCHANGED <<ep, bind, fresh, hooks, vw, win, late, sent>>, faults' \in 0 .. MaxFaults
  PROVE  Goes
<1>1. EndpointInv' /\ EndpointsStay
  BY DEF WakeInv, EndpointInv, EndpointsStay, MovedOn
<1>2. ClaimInv'
  BY ClaimHeld DEF WakeInv, ClaimInv
<1>3. hooks' \subseteq {"attach", "detach"} \X Generations
  BY DEF WakeInv
<1> QED BY <1>1, <1>2, <1>3, ServerStep

LEMMA FaultType ==
  ASSUME WakeInv, Fault
  PROVE  faults' \in 0 .. MaxFaults
BY Numbers DEF WakeInv, Fault

LEMMA PostStep ==
  ASSUME WakeInv, post_message
  PROVE  Goes
<1>1. /\ UNCHANGED <<ep, bind, fresh, hooks, vw, win, late, sent>>
      /\ faults' \in 0 .. MaxFaults
  BY DEF post_message, proc, page, WakeInv
<1> QED BY <1>1, PostKeeps, StoreStep DEF WakeInv

LEMMA CreateStep ==
  ASSUME WakeInv, create_agent_wait
  PROVE  Goes
<1>1. /\ UNCHANGED <<ep, bind, fresh, hooks, vw, win, late, sent>>
      /\ UNCHANGED <<attempts, done, posted>> /\ wait = "none"
      /\ faults' \in 0 .. MaxFaults
  BY DEF create_agent_wait, proc, page, WakeInv
<1>2. CASE done = {}
  <2>1. wait' = "waiting" /\ wakes' = wakes
    BY <1>2 DEF create_agent_wait
  <2>2. WaitWake' = WaitWake /\ WaitWake = {}
    BY <1>1, <2>1 DEF WaitWake, WaitLinks, WakeInv, StoreInv
  <2>3. WaitLinks'
    BY <2>1, <2>2 DEF WaitLinks
  <2>4. StoreTypes'
    BY <1>1, <2>1 DEF StoreTypes, Named, WakeInv, StoreInv
  <2>5. WakeLinks' /\ AttemptLinks' /\ Marks'
    BY <1>1, <2>1 DEF WakeLinks, AttemptLinks, Marks, WakeInv, StoreInv
  <2>6. Room' /\ EveryMessageAnnounced'
    BY <1>1, <2>1, <2>2 DEF Room, EveryMessageAnnounced, WakeInv, StoreInv
  <2>7. AttemptsGoOn /\ WakesGoOn /\ NoneAdded
    BY <1>1, <2>1 DEF AttemptsGoOn, WakesGoOn, NoneAdded, PastFence
  <2>8. StoreInv'
    BY <2>3, <2>4, <2>5, <2>6 DEF StoreInv
  <2> QED BY <1>1, <2>7, <2>8, StoreStep
<1>3. CASE done # {}
  <2>1. RecordMatch(done) /\ done \in SUBSET Tasks /\ done' \in SUBSET Tasks
    BY <1>1, <1>3 DEF create_agent_wait, WakeInv, StoreInv, StoreTypes
  <2> QED BY <1>1, <2>1, MatchKeeps, StoreStep DEF WakeInv
<1> QED BY <1>2, <1>3

LEMMA CancelStep ==
  ASSUME WakeInv, cancel_agent_wait
  PROVE  Goes
<1>1. /\ UNCHANGED <<ep, bind, fresh, hooks, vw, win, late, sent>>
      /\ faults' \in 0 .. MaxFaults
  BY DEF cancel_agent_wait, proc, page, WakeInv
<1> QED BY <1>1, CancelKeeps, StoreStep DEF WakeInv

LEMMA TaskStep ==
  ASSUME WakeInv, NEW t \in Tasks, TaskEnds(t)
  PROVE  Goes
<1>1. /\ UNCHANGED <<ep, bind, fresh, hooks, vw, win, late, sent>>
      /\ UNCHANGED <<attempts, posted>> /\ done' = done \cup {t}
      /\ faults' \in 0 .. MaxFaults
  BY DEF TaskEnds, proc, page, WakeInv
<1>2. done' \in SUBSET Tasks
  BY <1>1 DEF WakeInv, StoreInv, StoreTypes
<1>3. CASE wait \in {"waiting", "triggered"}
  <2>0. PICK T : T = done'
    OBVIOUS
  <2>1. RecordMatch(T) /\ T \in SUBSET Tasks
    BY <1>2, <1>3, <2>0 DEF TaskEnds, RecordMatch
  <2> QED BY <1>1, <1>2, <1>3, <2>1, MatchKeeps, StoreStep DEF WakeInv
<1>4. CASE wait \notin {"waiting", "triggered"}
  <2>1. UNCHANGED <<wait, wakes>>
    BY <1>4 DEF TaskEnds
  <2>2. WaitWake' = WaitWake
    BY <2>1 DEF WaitWake
  <2>3. WaitLinks'
    BY <2>1, <2>2 DEF WaitLinks, WakeInv, StoreInv
  <2>4. StoreTypes'
    BY <1>1, <1>2, <2>1 DEF StoreTypes, Named, WakeInv, StoreInv
  <2>5. WakeLinks' /\ AttemptLinks' /\ Marks'
    BY <1>1, <2>1 DEF WakeLinks, AttemptLinks, Marks, WakeInv, StoreInv
  <2>6. Room' /\ EveryMessageAnnounced'
    BY <1>1, <2>1, <2>2 DEF Room, EveryMessageAnnounced, WakeInv, StoreInv
  <2>7. AttemptsGoOn /\ WakesGoOn /\ NoneAdded
    BY <1>1, <2>1 DEF AttemptsGoOn, WakesGoOn, NoneAdded, PastFence
  <2>8. StoreInv'
    BY <2>3, <2>4, <2>5, <2>6 DEF StoreInv
  <2> QED BY <1>1, <2>7, <2>8, StoreStep
<1> QED BY <1>3, <1>4

LEMMA ConsumeStep ==
  ASSUME WakeInv, NEW a \in DOMAIN attempts, consume_agent_wake(a)
  PROVE  Goes
<1>1. /\ UNCHANGED <<ep, bind, fresh, hooks, vw, win, late, sent>>
      /\ UNCHANGED <<done, posted>> /\ faults' \in 0 .. MaxFaults
  BY DEF consume_agent_wake, proc, page, WakeInv
<1>2. PICK w : w = attempts[a].wake
  OBVIOUS
<1>3. /\ wakes[w].att = a /\ wakes[w].st \in Dispatched
      /\ wakes[w].kind = "wait" => wait = "triggered"
      /\ attempts' = [attempts EXCEPT ![a].st = "consumed"]
      /\ wakes' = [wakes EXCEPT ![w].st = "consumed"]
      /\ wait' = IF wakes[w].kind = "wait" THEN "resumed" ELSE wait
  BY <1>2 DEF consume_agent_wake, Consumable
<1>4. wakes[w].st # "claimed" /\ "consumed" \in Begun /\ w \in DOMAIN wakes
  BY <1>2, <1>3 DEF Dispatched, Begun, WakeInv, StoreInv, AttemptLinks
<1>5. Moved(a, w, "consumed")
  BY <1>2, <1>3, <1>4, MovedForm DEF WakeInv
<1>6. wait' \in {"none", "waiting", "triggered", "resumed", "cancelled"}
  BY <1>3 DEF WakeInv, StoreInv, StoreTypes
<1>7. ASSUME WaitWake' = WaitWake PROVE WaitLinks'
  <2>0. /\ \A x \in DOMAIN wakes : x # w => wakes'[x] = wakes[x]
        /\ wakes'[w].st = "consumed"
    BY <1>5 DEF Moved
  <2>1. CASE wakes[w].kind = "wait"
    <3>1. w \in WaitWake /\ \A x \in WaitWake : x = w
      BY <1>4, <2>1 DEF WaitWake, WakeInv, StoreInv, WaitLinks
    <3>2. wait' = "resumed"
      BY <1>3, <2>1
    <3>3. WaitWake = {w}
      BY <3>1
    <3> QED BY <1>7, <2>0, <3>2, <3>3 DEF WaitLinks, Resolved
  <2>2. CASE wakes[w].kind # "wait"
    <3>1. wait' = wait /\ \A x \in WaitWake : x \in DOMAIN wakes /\ x # w
      BY <1>3, <2>2 DEF WaitWake
    <3>2. \A x \in WaitWake : wakes'[x] = wakes[x]
      BY <2>0, <3>1
    <3> QED BY <1>7, <3>1, <3>2 DEF WaitLinks, WakeInv, StoreInv
  <2> QED BY <2>1, <2>2
<1>8. StoreInv' /\ AttemptsGoOn /\ WakesGoOn /\ NoneAdded
  BY <1>1, <1>2, <1>3, <1>4, <1>5, <1>6, <1>7, MovedKeeps DEF WakeInv
<1> QED BY <1>1, <1>8, StoreStep

LEMMA LapseSteps ==
  ASSUME WakeInv, EndpointLapses \/ (\E a \in DOMAIN attempts : ClaimLapses(a))
  PROVE  Goes
<1>1. CASE EndpointLapses
  <2>1. /\ UNCHANGED <<bind, fresh, hooks, vw, win, late, sent>> /\ Fault /\ StoreStill
    BY <1>1 DEF EndpointLapses, proc, StoreStill
  <2>2. StoreInv' /\ AttemptsGoOn /\ WakesGoOn /\ NoneAdded
    BY <2>1, StillKeeps DEF WakeInv
  <2>3. EndpointInv' /\ EndpointsStay
    BY <1>1, LapseEndpoint DEF WakeInv
  <2>4. ClaimInv'
    BY <2>1, <2>2, ClaimHeld DEF WakeInv, ClaimInv
  <2>5. faults' \in 0 .. MaxFaults
    BY <2>1, FaultType
  <2>6. hooks' \subseteq {"attach", "detach"} \X Generations
    BY <2>1 DEF WakeInv
  <2> QED BY <2>1, <2>2, <2>3, <2>4, <2>5, <2>6, ServerStep
<1>2. ASSUME NEW a \in DOMAIN attempts, ClaimLapses(a) PROVE Goes
  <2>1. /\ UNCHANGED <<ep, bind, fresh, hooks, vw, win, late, sent>> /\ Fault
    BY <1>2 DEF ClaimLapses, proc
  <2>2. faults' \in 0 .. MaxFaults
    BY <2>1, FaultType
  <2> QED BY <1>2, <2>1, <2>2, LapseKeeps, StoreStep DEF WakeInv
<1> QED BY <1>1, <1>2

LEMMA AttachSteps ==
  ASSUME WakeInv, attach_agent_endpoint \/ (\E g \in DOMAIN ep : detach_agent_endpoint(g))
  PROVE  Goes
<1>1. CASE attach_agent_endpoint
  <2>1. /\ UNCHANGED <<bind, vw, win, late, sent>> /\ UNCHANGED <<wait, done, posted>> /\ Fault
        /\ hooks' = hooks \cup {<<"attach", gen + 1>>}
        /\ reconcile_wakes(Attached, Attached)
    BY <1>1 DEF attach_agent_endpoint
  <2>2. StoreInv' /\ AttemptsGoOn /\ WakesGoOn /\ NoneAdded
    BY <2>1, CutKeeps DEF WakeInv
  <2>3. EndpointInv' /\ EndpointsStay /\ gen + 1 \in Generations
    BY <1>1, AttachEndpoint DEF WakeInv
  <2>4. ClaimInv'
    BY <2>1, <2>2, ClaimHeld DEF WakeInv, ClaimInv
  <2>5. faults' \in 0 .. MaxFaults
    BY <2>1, FaultType
  <2>6. hooks' \subseteq {"attach", "detach"} \X Generations
    BY <2>1, <2>3 DEF WakeInv
  <2> QED BY <2>1, <2>2, <2>3, <2>4, <2>5, <2>6, ServerStep
<1>2. ASSUME NEW g \in DOMAIN ep, detach_agent_endpoint(g) PROVE Goes
  <2>1. /\ UNCHANGED <<bind, vw, win, late, sent>> /\ UNCHANGED <<wait, done, posted>> /\ Fault
        /\ hooks' = hooks \cup {<<"detach", g>>}
        /\ reconcile_wakes({g}, {g})
    BY <1>2 DEF detach_agent_endpoint
  <2>2. StoreInv' /\ AttemptsGoOn /\ WakesGoOn /\ NoneAdded
    BY <2>1, CutKeeps DEF WakeInv
  <2>3. EndpointInv' /\ EndpointsStay /\ g \in Generations
    BY <1>2, DetachEndpoint, EndpointForms DEF WakeInv
  <2>4. ClaimInv'
    BY <2>1, <2>2, ClaimHeld DEF WakeInv, ClaimInv
  <2>5. faults' \in 0 .. MaxFaults
    BY <2>1, FaultType
  <2>6. hooks' \subseteq {"attach", "detach"} \X Generations
    BY <2>1, <2>3 DEF WakeInv
  <2> QED BY <2>1, <2>2, <2>3, <2>4, <2>5, <2>6, ServerStep
<1> QED BY <1>1, <1>2

LEMMA HookSteps ==
  ASSUME WakeInv, NEW g \in DOMAIN ep, reconcile_attached_endpoint(g) \/ endpoint_detached(g)
  PROVE  Goes
<1>1. /\ StoreStill /\ ep' = ep /\ UNCHANGED <<vw, win, late, sent, faults>>
      /\ hooks' \subseteq hooks /\ bind' \in {bind, Unbound} /\ fresh' \in {g, 0, fresh}
  BY DEF reconcile_attached_endpoint, endpoint_detached, store, page, StoreStill
<1>2. StoreInv' /\ AttemptsGoOn /\ WakesGoOn /\ NoneAdded
  BY <1>1, StillKeeps DEF WakeInv
<1>3. ClaimInv'
  BY <1>1, <1>2, ClaimHeld, BindingForms DEF WakeInv, ClaimInv
<1>4. fresh' \in 0 .. MaxGeneration
  <2>1. g \in Generations /\ fresh \in 0 .. MaxGeneration
    BY EndpointForms DEF WakeInv, EndpointInv
  <2> QED BY <1>1, <2>1, Numbers DEF Generations
<1>5. EndpointInv' /\ EndpointsStay
  BY <1>1, <1>4 DEF WakeInv, EndpointInv, EndpointsStay, MovedOn
<1>6. faults' \in 0 .. MaxFaults /\ hooks' \subseteq {"attach", "detach"} \X Generations
  BY <1>1 DEF WakeInv
<1> QED BY <1>1, <1>2, <1>3, <1>5, <1>6, ServerStep

LEMMA TakeoverStep ==
  ASSUME WakeInv, Takeover
  PROVE  Goes
<1>1. /\ UNCHANGED <<vw, win, late, sent>> /\ UNCHANGED <<wait, done, posted>> /\ Fault
      /\ hooks' = {} /\ bind' = Unbound
      /\ \E P, D : reconcile_wakes(P, D)
  BY DEF Takeover
<1>2. StoreInv' /\ AttemptsGoOn /\ WakesGoOn /\ NoneAdded
  BY <1>1, CutKeeps DEF WakeInv
<1>3. EndpointInv' /\ EndpointsStay
  BY TakeoverEndpoints DEF WakeInv
<1>4. ClaimInv'
  BY <1>1, <1>2, ClaimHeld, BindingForms DEF WakeInv
<1>5. faults' \in 0 .. MaxFaults /\ hooks' \subseteq {"attach", "detach"} \X Generations
  BY <1>1, FaultType
<1> QED BY <1>1, <1>2, <1>3, <1>4, <1>5, ServerStep

LEMMA ExplicitStep ==
  ASSUME WakeInv, NEW w \in DOMAIN wakes, accept_explicit_activation(w)
  PROVE  Goes
<1>1. /\ UNCHANGED <<ep, bind, fresh, hooks, vw, win, late, faults>> /\ Current(gen)
  BY DEF accept_explicit_activation, proc
<1>2. gen \in Generations
  BY <1>1, EndpointForms DEF WakeInv
<1>3. StoreInv' /\ AttemptsGoOn /\ WakesGoOn /\ FenceAlone'
  BY <1>2, ExplicitKeeps DEF WakeInv
<1>4. PICK n \in AttemptIds :
         /\ n \notin DOMAIN attempts /\ n \in DOMAIN attempts' /\ attempts'[n].st \in Begun
         /\ sent' = [sent EXCEPT ![n] = 1]
  BY <1>2, ExplicitKeeps DEF WakeInv
<1>5. EndpointInv' /\ EndpointsStay
  BY <1>1 DEF WakeInv, EndpointInv, EndpointsStay, MovedOn
<1>6. ClaimInv'
  BY <1>1, <1>3 DEF WakeInv, ClaimInv, ClaimKept, AttemptsGoOn
<1>7. PageInv'
  BY <1>1, <1>5, PagesStill DEF WakeInv
<1>8. sent' \in [AttemptIds -> Nat] /\ sent'[n] = 1
      /\ \A a \in AttemptIds : a # n => sent'[a] = sent[a]
  BY <1>4 DEF WakeInv, SendInv
<1>9. SentIsBegun'
  BY <1>3, <1>4, <1>8 DEF WakeInv, SendInv, SentIsBegun, AttemptsGoOn
<1>10. Senders'
  <2>1. \A a \in DOMAIN attempts : a \in AttemptIds
    BY StoreForms DEF WakeInv
  <2> QED BY <1>1, <1>3, <1>4, <1>8, <2>1 DEF WakeInv, SendInv, Senders, AttemptsGoOn
<1>11. faults' \in 0 .. MaxFaults /\ hooks' \subseteq {"attach", "detach"} \X Generations
  BY <1>1 DEF WakeInv
<1> QED BY <1>3, <1>5, <1>6, <1>7, <1>8, <1>9, <1>10, <1>11 DEF WakeInv, SendInv, Goes

(* Steps of a View by itself, and its answered calls *)
LEMMA ViewStep ==
  ASSUME WakeInv, UNCHANGED <<ep, bind, fresh, hooks, win, sent>>, StoreStill,
         faults' \in 0 .. MaxFaults, NEW v \in Views, NEW y, Turned(v, y), y.pc # "send",
         late' \subseteq Request, \A r \in late' : r \in late \/ Sound(r)
  PROVE  Goes
<1>1. StoreInv' /\ AttemptsGoOn /\ WakesGoOn /\ NoneAdded
  BY StillKeeps DEF WakeInv
<1>2. EndpointInv' /\ EndpointsStay
  BY DEF WakeInv, EndpointInv, EndpointsStay, MovedOn
<1>3. ClaimInv'
  BY <1>1, ClaimHeld DEF WakeInv, ClaimInv
<1>4. PageInv'
  BY <1>2, PageTurned DEF WakeInv
<1>5. SendInv'
  BY <1>1, SendTurned DEF WakeInv
<1> QED BY <1>1, <1>2, <1>3, <1>4, <1>5 DEF WakeInv, Goes

LEMMA CallStep ==
  ASSUME WakeInv, NEW v \in Views, NEW r \in RequestsOf(v), Execute(r),
         UNCHANGED <<win, late, sent, faults>>, NEW y, Turned(v, y), y.pc # "send"
  PROVE  Goes
<1>1. Sound(r)
  BY RequestsSound DEF WakeInv
<1>2. /\ StoreInv' /\ EndpointInv' /\ EndpointsStay /\ ClaimInv' /\ AttemptsGoOn /\ WakesGoOn
      /\ hooks' = hooks
  BY <1>1, ExecuteKeeps DEF WakeInv
<1>3. PageInv'
  BY <1>2, PageTurned DEF WakeInv, PageInv
<1>4. SendInv'
  BY <1>2, SendTurned DEF WakeInv
<1> QED BY <1>2, <1>3, <1>4 DEF WakeInv, Goes

LEMMA PresentStep ==
  ASSUME WakeInv, NEW v \in Views, Present(v)
  PROVE  Goes
<1>1. /\ StoreStill /\ UNCHANGED <<ep, bind, fresh, hooks, late, sent, faults>>
      /\ Current(gen) /\ vw' = [vw EXCEPT ![v] = Reset("new", gen)]
  BY DEF Present, StoreStill, Step, store, proc
<1>2. PICK w \in Windows : win' = [win EXCEPT ![v] = w]
  BY DEF Present
<1>3. win' \in [Views -> Windows \cup {NoWindow}] /\ win'[v] \in Windows
      /\ \A u \in Views : u # v => win'[u] = win[u]
  BY <1>2 DEF WakeInv, PageInv
<1>4. gen \in DOMAIN ep /\ gen \in Generations
  BY <1>1, EndpointForms DEF WakeInv
<1>5. PICK y : y = Reset("new", gen)
  OBVIOUS
<1>6. y \in View /\ y.pc = "new" /\ y.gen = gen
  <2>1. gen \in 0 .. MaxGeneration /\ "new" \in Pcs
    BY <1>4, Numbers DEF Generations, Pcs
  <2> QED BY <1>5, <2>1, ResetForm
<1>7. vw' \in [Views -> View] /\ \A u \in Views : vw'[u] = IF u = v THEN y ELSE vw[u]
  BY <1>1, <1>5, <1>6 DEF WakeInv, PageInv
<1>8. StoreInv' /\ AttemptsGoOn /\ WakesGoOn /\ NoneAdded
  BY <1>1, StillKeeps DEF WakeInv
<1>9. EndpointInv'
  BY <1>1 DEF WakeInv, EndpointInv, MovedOn
<1>10. ClaimInv'
  BY <1>1, <1>8, ClaimHeld DEF WakeInv, ClaimInv
<1>11. PagesSound'
  BY <1>1, <1>3, <1>4, <1>6, <1>7 DEF WakeInv, PageInv, PagesSound
<1>12. LateSound'
  <2>1. \A r \in late : r.v \in Views
    BY DEF WakeInv, PageInv, Request
  <2> QED BY <1>1, <1>3, <2>1 DEF WakeInv, PageInv, LateSound
<1>13. PageInv'
  BY <1>1, <1>3, <1>7, <1>11, <1>12 DEF WakeInv, PageInv
<1>14. SendInv'
  <2>1. \A u \in Views : vw'[u].pc = "send" => vw'[u] = vw[u]
    BY <1>6, <1>7
  <2> QED BY <1>1, <1>8, <2>1, SendHeld DEF WakeInv
<1> QED BY <1>1, <1>8, <1>9, <1>10, <1>13, <1>14 DEF WakeInv, Goes

(* A View that goes on with its Endpoint *)
LEMMA TurnedOn ==
  ASSUME WakeInv, NEW v \in Views, NEW y \in View, vw' = [vw EXCEPT ![v] = y], y.gen = vw[v].gen,
         vw[v].pc \notin {"none", "dead"}, win' = win, EndpointsStay, y.pc = "prepare" => y.att # 0
  PROVE  Turned(v, y)
BY DEF WakeInv, PageInv, PagesSound, EndpointsStay, Turned

LEMMA CallsStay ==
  ASSUME WakeInv, NEW v \in Views, NEW op, Call(v, op)
  PROVE  /\ EndpointsStay /\ UNCHANGED <<win, late, sent, faults>> /\ bind' \in Binding
         /\ vw[v].pc \notin {"none", "dead"}
         /\ \E r \in RequestsOf(v) : r.op = op /\ Execute(r)
<1>1. PICK r \in RequestsOf(v) : r.op = op /\ Execute(r)
  BY DEF Call
<1>2. Sound(r) /\ vw[v].pc \notin {"none", "dead"}
  BY RequestsSound DEF WakeInv
<1>3. EndpointsStay /\ bind' \in Binding
  BY <1>1, <1>2, ExecuteKeeps DEF WakeInv, ClaimInv
<1>4. UNCHANGED <<win, late, sent, faults>>
  BY DEF Call
<1> QED BY <1>1, <1>2, <1>3, <1>4

LEMMA BindStep ==
  ASSUME WakeInv, NEW v \in Views, Bind(v)
  PROVE  Goes
<1>1. Call(v, "bind") /\ vw' = [vw EXCEPT ![v] = Goto(v, "beat")]
  BY DEF Bind, Step
<1>2. PICK y : y = Goto(v, "beat")
  OBVIOUS
<1>3. y \in View /\ y.pc = "beat" /\ y.gen = vw[v].gen
  <2>1. "beat" \in Pcs
    BY DEF Pcs
  <2> QED BY <1>2, <2>1, GotoForm DEF WakeInv
<1>4. PICK r \in RequestsOf(v) : Execute(r)
  BY <1>1, CallsStay
<1>5. UNCHANGED <<win, late, sent, faults>>
  BY <1>1, CallsStay
<1>6. Turned(v, y)
  BY <1>1, <1>2, <1>3, <1>5, CallsStay, TurnedOn
<1> QED BY <1>3, <1>4, <1>5, <1>6, CallStep

LEMMA HeartbeatStep ==
  ASSUME WakeInv, NEW v \in Views, Heartbeat(v)
  PROVE  Goes
<1>1. /\ StoreStill /\ UNCHANGED <<ep, bind, fresh, hooks, win, late, sent, faults>>
      /\ vw[v].pc = "beat" /\ EndpointsStay
      /\ \/ vw' = [vw EXCEPT ![v] = Goto(v, "acquire")]
         \/ vw' = [vw EXCEPT ![v] = Reset("new", vw[v].gen)]
  BY DEF Heartbeat, StoreStill, Step, store, proc, EndpointsStay
<1>2. PICK y \in {Goto(v, "acquire"), Reset("new", vw[v].gen)} : vw' = [vw EXCEPT ![v] = y]
  BY <1>1
<1>3. y \in View /\ y.pc \in {"acquire", "new"} /\ y.gen = vw[v].gen
  <2>1. "acquire" \in Pcs /\ "new" \in Pcs /\ vw[v].gen \in 0 .. MaxGeneration
    BY ViewForms DEF Pcs, WakeInv
  <2> QED BY <1>2, <2>1, GotoForm, ResetForm DEF WakeInv
<1>4. Turned(v, y)
  BY <1>1, <1>2, <1>3, TurnedOn
<1>5. late' \subseteq Request /\ faults' \in 0 .. MaxFaults
  BY <1>1 DEF WakeInv, PageInv
<1> QED BY <1>1, <1>3, <1>4, <1>5, ViewStep

LEMMA AcquireStep ==
  ASSUME WakeInv, NEW v \in Views, Acquire(v)
  PROVE  Goes
<1>1. Call(v, "acquire")
  BY DEF Acquire
<1>2. PICK r \in RequestsOf(v) : Execute(r)
  BY <1>1, CallsStay
<1>3. UNCHANGED <<win, late, sent, faults>> /\ EndpointsStay /\ vw[v].pc \notin {"none", "dead"}
      /\ bind' \in Binding
  BY <1>1, CallsStay
<1>4. PICK x, a : x = vw[v] /\ a = bind'.claim
  OBVIOUS
<1>5. x \in View /\ a \in 0 .. MaxAttempts /\ bind'.phase \in Phases
  BY <1>3, <1>4, ViewForms, Numbers DEF WakeInv, Binding, Unbound, Phases
<1>6. PICK y : /\ vw' = [vw EXCEPT ![v] = y]
               /\ \/ y = Idle(x)
                  \/ a # 0 /\ y = [x EXCEPT !.pc = "finish", !.att = a, !.out = FALSE]
                  \/ a # 0 /\ y = [x EXCEPT !.pc = "prepare", !.att = a]
  <2>1. CASE a = 0 \/ bind'.phase \in {"accepted", "unknown"}
    BY <1>4, <2>1 DEF Acquire, Step
  <2>2. CASE a # 0 /\ bind'.phase = "prepared"
    BY <1>4, <2>2 DEF Acquire, Step
  <2>3. CASE a # 0 /\ bind'.phase = "none"
    BY <1>4, <2>3 DEF Acquire, Step
  <2> QED BY <1>5, <2>1, <2>2, <2>3 DEF Phases
<1>7. /\ y \in View /\ y.pc \in {"beat", "finish", "prepare"} /\ y.gen = x.gen
      /\ y.pc = "prepare" => y.att # 0
  <2>1. CASE y = Idle(x)
    BY <1>5, <2>1, IdleForm
  <2>2. CASE a # 0 /\ y = [x EXCEPT !.pc = "finish", !.att = a, !.out = FALSE]
    BY <1>5, <2>2 DEF View
  <2>3. CASE a # 0 /\ y = [x EXCEPT !.pc = "prepare", !.att = a]
    BY <1>5, <2>3 DEF View
  <2> QED BY <1>6, <2>1, <2>2, <2>3
<1>8. Turned(v, y)
  BY <1>3, <1>4, <1>6, <1>7, TurnedOn
<1> QED BY <1>2, <1>3, <1>7, <1>8, CallStep

LEMMA PrepareStep ==
  ASSUME WakeInv, NEW v \in Views, Prepare(v)
  PROVE  Goes
<1>1. Call(v, "prepare") /\ vw' = [vw EXCEPT ![v] = Goto(v, "send")]
  BY DEF Prepare, Step
<1>2. PICK r \in RequestsOf(v) : r.op = "prepare" /\ Execute(r)
  BY <1>1, CallsStay
<1>3. UNCHANGED <<win, late, sent, faults>> /\ EndpointsStay /\ vw[v].pc \notin {"none", "dead"}
  BY <1>1, CallsStay
<1>4. Sound(r) /\ r.a = vw[v].att
  BY <1>2, RequestsSound DEF WakeInv
<1>5. /\ StoreInv' /\ EndpointInv' /\ EndpointsStay /\ ClaimInv' /\ AttemptsGoOn /\ WakesGoOn
      /\ hooks' = hooks
  BY <1>2, <1>4, ExecuteKeeps DEF WakeInv
<1>6. PICK a : a = vw[v].att
  OBVIOUS
<1>7. a \in DOMAIN attempts /\ attempts[a].st = "claimed" /\ attempts'[a].st \in Begun
  BY <1>2, <1>4, <1>6, ExecuteKeeps DEF WakeInv
<1>8. PICK y : y = Goto(v, "send")
  OBVIOUS
<1>9. y \in View /\ y.pc = "send" /\ y.gen = vw[v].gen /\ y.att = a
  <2>1. "send" \in Pcs
    BY DEF Pcs
  <2> QED BY <1>6, <1>8, <2>1, GotoForm DEF WakeInv
<1>10. Turned(v, y)
  BY <1>1, <1>3, <1>8, <1>9, TurnedOn
<1>11. PageInv'
  BY <1>3, <1>10, PageTurned DEF WakeInv, PageInv
<1>12. \A u \in Views : vw'[u] = IF u = v THEN y ELSE vw[u]
  BY <1>10 DEF WakeInv, PageInv, Turned
<1>13. SentIsBegun'
  BY <1>3, <1>5 DEF WakeInv, SendInv, SentIsBegun, AttemptsGoOn
<1>14. sent[a] = 0
  <2>1. a \in AttemptIds /\ sent[a] \in Nat
    BY <1>7, StoreForms DEF WakeInv, SendInv
  <2>2. "claimed" \notin Begun
    BY DEF Begun, Dispatched
  <2> QED BY <1>7, <2>1, <2>2 DEF WakeInv, SendInv, SentIsBegun
<1>15. \A u \in Views : vw[u].pc = "send" => vw[u].att # a
  <2>1. "claimed" \notin Begun
    BY DEF Begun, Dispatched
  <2> QED BY <1>7, <2>1 DEF WakeInv, SendInv, Senders
<1>16. Senders'
  <2> SUFFICES ASSUME NEW u \in Views, vw'[u].pc = "send"
               PROVE  /\ vw'[u].att \in DOMAIN attempts' /\ attempts'[vw'[u].att].st \in Begun
                      /\ sent'[vw'[u].att] = 0
                      /\ \A z \in Views : vw'[z].pc = "send" /\ vw'[z].att = vw'[u].att => z = u
    BY DEF Senders
  <2>1. CASE u = v
    BY <1>3, <1>5, <1>7, <1>9, <1>12, <1>14, <1>15, <2>1 DEF AttemptsGoOn
  <2>2. CASE u # v
    <3>1. /\ vw[u].att \in DOMAIN attempts /\ attempts[vw[u].att].st \in Begun
          /\ sent[vw[u].att] = 0
          /\ \A z \in Views : vw[z].pc = "send" /\ vw[z].att = vw[u].att => z = u
      BY <1>12, <2>2 DEF WakeInv, SendInv, Senders
    <3> QED BY <1>3, <1>5, <1>9, <1>12, <1>15, <2>2, <3>1 DEF AttemptsGoOn
  <2> QED BY <2>1, <2>2
<1>17. SendInv'
  BY <1>3, <1>13, <1>16 DEF WakeInv, SendInv
<1> QED BY <1>3, <1>5, <1>11, <1>17 DEF WakeInv, Goes

LEMMA ProbeStep ==
  ASSUME WakeInv, NEW v \in Views, Probe(v)
  PROVE  Goes
<1>1. /\ StoreStill /\ UNCHANGED <<ep, bind, fresh, hooks, win, late, sent, faults>>
      /\ vw[v].pc = "probe" /\ EndpointsStay
      /\ \/ vw' = [vw EXCEPT ![v] = [vw[v] EXCEPT !.pc = "finish", !.out = FALSE]]
         \/ vw' = [vw EXCEPT ![v] = Idle(vw[v])]
  BY DEF Probe, StoreStill, Step, store, proc, EndpointsStay
<1>2. PICK x : x = vw[v]
  OBVIOUS
<1>3. PICK y \in {[x EXCEPT !.pc = "finish", !.out = FALSE], Idle(x)} : vw' = [vw EXCEPT ![v] = y]
  BY <1>1, <1>2
<1>4. x \in View
  BY <1>2, ViewForms DEF WakeInv
<1>5. y \in View /\ y.pc \in {"finish", "beat"} /\ y.gen = x.gen
  <2>1. CASE y = [x EXCEPT !.pc = "finish", !.out = FALSE]
    BY <1>4, <2>1 DEF View
  <2>2. CASE y = Idle(x)
    BY <1>4, <2>2, IdleForm
  <2> QED BY <1>3, <2>1, <2>2
<1>6. Turned(v, y)
  BY <1>1, <1>2, <1>3, <1>5, TurnedOn
<1>7. late' \subseteq Request /\ faults' \in 0 .. MaxFaults
  BY <1>1 DEF WakeInv, PageInv
<1> QED BY <1>1, <1>5, <1>6, <1>7, ViewStep

LEMMA SendStep ==
  ASSUME WakeInv, NEW v \in Views, Send(v)
  PROVE  Goes
<1>1. /\ StoreStill /\ UNCHANGED <<ep, bind, fresh, hooks, win, late, faults>>
      /\ vw[v].pc = "send" /\ EndpointsStay
      /\ sent' = [sent EXCEPT ![vw[v].att] = @ + 1]
  BY DEF Send, StoreStill, store, proc, EndpointsStay
<1>2. PICK x : x = vw[v]
  OBVIOUS
<1>3. PICK ok \in BOOLEAN :
         vw' = [vw EXCEPT ![v] = [x EXCEPT !.pc = "finish", !.started = x.att, !.out = ok]]
  BY <1>2 DEF Send, Step
<1>4. PICK y : y = [x EXCEPT !.pc = "finish", !.started = x.att, !.out = ok]
  OBVIOUS
<1>5. y \in View /\ y.pc = "finish" /\ y.gen = x.gen
  <2>1. x \in View
    BY <1>2, ViewForms DEF WakeInv
  <2> QED BY <1>4, <2>1 DEF View
<1>6. Turned(v, y)
  BY <1>1, <1>2, <1>3, <1>4, <1>5, TurnedOn
<1>7. StoreInv' /\ AttemptsGoOn /\ WakesGoOn /\ NoneAdded
  BY <1>1, StillKeeps DEF WakeInv
<1>8. EndpointInv'
  BY <1>1 DEF WakeInv, EndpointInv, MovedOn
<1>9. ClaimInv'
  BY <1>1, <1>7, ClaimHeld DEF WakeInv, ClaimInv
<1>10. PageInv'
  BY <1>1, <1>6, PageTurned DEF WakeInv, PageInv
<1>11. PICK a : a = x.att
  OBVIOUS
<1>12. /\ a \in DOMAIN attempts /\ a \in AttemptIds /\ attempts[a].st \in Begun /\ sent[a] = 0
       /\ \A u \in Views : vw[u].pc = "send" /\ vw[u].att = a => u = v
  <2>1. /\ a \in DOMAIN attempts /\ attempts[a].st \in Begun /\ sent[a] = 0
        /\ \A u \in Views : vw[u].pc = "send" /\ vw[u].att = a => u = v
    BY <1>1, <1>2, <1>11 DEF WakeInv, SendInv, Senders
  <2>2. a \in AttemptIds
    BY <2>1, StoreForms DEF WakeInv
  <2> QED BY <2>1, <2>2
<1>13. /\ sent' \in [AttemptIds -> Nat] /\ sent'[a] = 1
       /\ \A b \in AttemptIds : b # a => sent'[b] = sent[b]
  BY <1>1, <1>2, <1>11, <1>12 DEF WakeInv, SendInv
<1>14. \A u \in Views : vw'[u] = IF u = v THEN y ELSE vw[u]
  BY <1>6 DEF WakeInv, PageInv, Turned
<1>15. SentIsBegun'
  BY <1>7, <1>12, <1>13 DEF WakeInv, SendInv, SentIsBegun, AttemptsGoOn
<1>16. Senders'
  <2> SUFFICES ASSUME NEW u \in Views, vw'[u].pc = "send"
               PROVE  /\ vw'[u].att \in DOMAIN attempts' /\ attempts'[vw'[u].att].st \in Begun
                      /\ sent'[vw'[u].att] = 0
                      /\ \A z \in Views : vw'[z].pc = "send" /\ vw'[z].att = vw'[u].att => z = u
    BY DEF Senders
  <2>1. u # v /\ vw'[u] = vw[u]
    BY <1>5, <1>14
  <2>2. /\ vw[u].att \in DOMAIN attempts /\ attempts[vw[u].att].st \in Begun
        /\ sent[vw[u].att] = 0 /\ vw[u].att # a
        /\ \A z \in Views : vw[z].pc = "send" /\ vw[z].att = vw[u].att => z = u
    BY <1>12, <2>1 DEF WakeInv, SendInv, Senders
  <2>3. vw[u].att \in AttemptIds
    BY <2>2, StoreForms DEF WakeInv
  <2>4. sent'[vw[u].att] = 0
    BY <1>13, <2>2, <2>3
  <2> QED BY <1>5, <1>7, <1>14, <2>1, <2>2, <2>4 DEF AttemptsGoOn
<1>17. SendInv'
  BY <1>13, <1>15, <1>16 DEF SendInv
<1> QED BY <1>1, <1>7, <1>8, <1>9, <1>10, <1>17 DEF WakeInv, Goes

LEMMA FinishStep ==
  ASSUME WakeInv, NEW v \in Views, Finish(v)
  PROVE  Goes
<1>1. Call(v, "finish")
  BY DEF Finish
<1>2. PICK r \in RequestsOf(v) : Execute(r)
  BY <1>1, CallsStay
<1>3. UNCHANGED <<win, late, sent, faults>> /\ EndpointsStay /\ vw[v].pc \notin {"none", "dead"}
  BY <1>1, CallsStay
<1>4. PICK z : z = [vw[v] EXCEPT !.pend = 0]
  OBVIOUS
<1>5. z \in View /\ z.gen = vw[v].gen
  <2>1. vw[v] \in View /\ 0 \in 0 .. MaxAttempts
    BY ViewForms, Numbers DEF WakeInv
  <2> QED BY <1>4, <2>1 DEF View
<1>6. PICK y : y = Idle(z)
  OBVIOUS
<1>7. y \in View /\ y.pc = "beat" /\ y.gen = vw[v].gen
  BY <1>5, <1>6, IdleForm
<1>8. vw' = [vw EXCEPT ![v] = y]
  BY <1>4, <1>6 DEF Finish, Step
<1>9. Turned(v, y)
  BY <1>3, <1>7, <1>8, TurnedOn
<1> QED BY <1>2, <1>3, <1>7, <1>9, CallStep

LEMMA RecoverStep ==
  ASSUME WakeInv, NEW v \in Views, Recover(v)
  PROVE  Goes
<1>1. Call(v, "recover")
  BY DEF Recover
<1>2. PICK r \in RequestsOf(v) : r.op = "recover" /\ Execute(r)
  BY <1>1, CallsStay
<1>3. UNCHANGED <<win, late, sent, faults>>
  BY <1>1, CallsStay
<1>4. Sound(r) /\ r.g = vw[v].gen /\ win[v] \in Windows /\ vw[v].gen \in DOMAIN ep
  BY <1>2, RequestsSound DEF WakeInv
<1>5. PICK g : g = vw[v].gen + 1
  OBVIOUS
<1>6. g \in DOMAIN ep' /\ EndpointInv'
  BY <1>2, <1>4, <1>5, ExecuteKeeps DEF WakeInv
<1>7. g \in 0 .. MaxGeneration
  BY <1>6, Numbers DEF EndpointInv
<1>8. PICK pc \in {"new", "hop", "rebind"} : vw' = [vw EXCEPT ![v] = Reset(pc, g)]
  BY <1>5 DEF Recover, Step
<1>9. PICK y : y = Reset(pc, g)
  OBVIOUS
<1>10. y \in View /\ y.pc = pc /\ y.gen = g
  <2>1. pc \in Pcs
    BY DEF Pcs
  <2> QED BY <1>7, <1>9, <2>1, ResetForm
<1>11. Turned(v, y)
  BY <1>3, <1>4, <1>6, <1>8, <1>9, <1>10 DEF Turned
<1> QED BY <1>2, <1>3, <1>10, <1>11, CallStep

LEMMA FailureSteps ==
  ASSUME WakeInv, NEW v \in Views, Refused(v) \/ GivesUp(v)
  PROVE  Goes
<1>1. /\ StoreStill /\ UNCHANGED <<ep, bind, fresh, hooks, win, sent>> /\ EndpointsStay
  BY DEF Refused, GivesUp, StoreStill, store, proc, EndpointsStay
<1>2. PICK r \in RequestsOf(v) : late' \in {late, late \cup {r}}
  BY DEF Refused, GivesUp
<1>3. Sound(r) /\ vw[v].pc \notin {"none", "dead"}
  BY RequestsSound DEF WakeInv
<1>4. /\ late' \subseteq Request /\ \A q \in late' : q \in late \/ Sound(q)
  BY <1>2, <1>3 DEF WakeInv, PageInv, Sound
<1>5. faults' \in 0 .. MaxFaults
  BY FaultType DEF Refused, GivesUp, WakeInv
<1>6. \E y \in View : /\ vw' = [vw EXCEPT ![v] = y] /\ y.gen = vw[v].gen
                      /\ y.pc \notin {"send", "prepare"}
  <2>1. CASE \E y \in AfterFailure(v) : Step(v, y)
    BY <2>1, FailureForms DEF Step, WakeInv
  <2>2. CASE \E pc \in {"rebind", "stuck"} : Step(v, Goto(v, pc))
    <3>1. "rebind" \in Pcs /\ "stuck" \in Pcs
      BY DEF Pcs
    <3>2. PICK pc \in {"rebind", "stuck"} : vw' = [vw EXCEPT ![v] = Goto(v, pc)]
      BY <2>2 DEF Step
    <3>3. /\ Goto(v, pc) \in View /\ Goto(v, pc).pc = pc /\ Goto(v, pc).gen = vw[v].gen
      BY <3>1, GotoForm DEF WakeInv
    <3> QED BY <3>2, <3>3
  <2> QED BY <2>1, <2>2 DEF Refused, GivesUp
<1>7. PICK y \in View : /\ vw' = [vw EXCEPT ![v] = y] /\ y.gen = vw[v].gen
                        /\ y.pc \notin {"send", "prepare"}
  BY <1>6
<1>8. Turned(v, y)
  BY <1>1, <1>3, <1>7, TurnedOn
<1> QED BY <1>1, <1>4, <1>5, <1>7, <1>8, ViewStep

LEMMA TeardownStep ==
  ASSUME WakeInv, NEW v \in Views, Teardown(v)
  PROVE  Goes
<1> DEFINE q == [op |-> "unbind", v |-> v, g |-> vw[v].gen, a |-> 0, out |-> FALSE]
<1>1. /\ StoreStill /\ UNCHANGED <<ep, bind, fresh, hooks, win, sent>> /\ Fault
      /\ vw[v].pc \notin {"none", "dead"} /\ vw' = [vw EXCEPT ![v] = Reset("dead", 0)]
      /\ late' \in {late, late \cup {q}}
  BY DEF Teardown, StoreStill, Step, store, proc
<1>2. vw[v].gen \in DOMAIN ep /\ win[v] \in Windows
  BY <1>1 DEF WakeInv, PageInv, PagesSound
<1>3. vw[v].gen \in Generations /\ 0 \in 0 .. MaxAttempts /\ 0 \in 0 .. MaxGeneration
  BY <1>2, EndpointForms, Numbers DEF WakeInv
<1>4. Sound(q) /\ q \in Request
  BY <1>2, <1>3 DEF Sound, Request
<1>5. /\ late' \subseteq Request /\ \A r \in late' : r \in late \/ Sound(r)
  <2> HIDE DEF q
  <2> QED BY <1>1, <1>4 DEF WakeInv, PageInv
<1>6. PICK y : y = Reset("dead", 0)
  OBVIOUS
<1>7. y \in View /\ y.pc = "dead"
  <2>1. "dead" \in Pcs
    BY DEF Pcs
  <2> QED BY <1>3, <1>6, <2>1, ResetForm
<1>8. Turned(v, y)
  BY <1>1, <1>6, <1>7 DEF Turned
<1>9. faults' \in 0 .. MaxFaults
  BY <1>1, FaultType
<1> QED BY <1>1, <1>5, <1>7, <1>8, <1>9, ViewStep

LEMMA LateStep ==
  ASSUME WakeInv, NEW r \in late, LateRequest(r)
  PROVE  Goes
<1>1. /\ late' = late \ {r} /\ Execute(r) /\ UNCHANGED <<win, vw, sent, faults>>
  BY DEF LateRequest
<1>2. Sound(r)
  BY DEF WakeInv, PageInv, LateSound, Sound
<1>3. /\ StoreInv' /\ EndpointInv' /\ EndpointsStay /\ ClaimInv' /\ AttemptsGoOn /\ WakesGoOn
      /\ hooks' = hooks
  BY <1>1, <1>2, ExecuteKeeps DEF WakeInv
<1>4. PageInv'
  BY <1>1, <1>3, PagesStill DEF WakeInv
<1>5. SendInv'
  BY <1>1, <1>3, SendHeld DEF WakeInv
<1> QED BY <1>1, <1>3, <1>4, <1>5 DEF WakeInv, Goes

-----------------------------------------------------------------------------
(* The theorems *)

LEMMA AtMostOne ==
  ASSUME NEW S, \A x, y \in S : x = y
  PROVE  Cardinality(S) <= 1
<1>1. CASE S = {}
  <2>1. Cardinality(S) = 0
    BY <1>1, FS_EmptySet
  <2> QED BY <2>1
<1>2. CASE S # {}
  <2>1. PICK x \in S : S = {x}
    BY <1>2
  <2>2. Cardinality(S) = 1
    BY <2>1, FS_Singleton
  <2> QED BY <2>2
<1> QED BY <1>1, <1>2

LEMMA WakeInitial ==
  WakeInit => WakeInv
<1> SUFFICES ASSUME WakeInit PROVE WakeInv
  OBVIOUS
<1>1. wakes = <<>> /\ attempts = <<>> /\ wait = "none" /\ done = {} /\ posted = 0
  BY DEF WakeInit
<1>2. /\ wakes \in Seq(Wake) /\ Len(wakes) = 0 /\ DOMAIN wakes = {}
      /\ attempts \in Seq(Attempt) /\ Len(attempts) = 0 /\ DOMAIN attempts = {}
  BY <1>1
<1>3. StoreInv
  <2>1. StoreTypes
    BY <1>1, <1>2, Numbers DEF StoreTypes, Named
  <2>2. WakeLinks /\ AttemptLinks /\ Marks
    BY <1>2 DEF WakeLinks, AttemptLinks, Marks
  <2>3. WaitWake = {}
    BY <1>2 DEF WaitWake
  <2>4. WaitLinks /\ Room
    BY <1>1, <1>2, <2>3 DEF WaitLinks, Room
  <2>5. EveryMessageAnnounced
    BY <1>1 DEF EveryMessageAnnounced
  <2> QED BY <2>1, <2>2, <2>4, <2>5 DEF StoreInv
<1>4. EndpointInv
  <2>1. NewEndpoint(NoWindow) \in Endpoint /\ NewEndpoint(NoWindow).moved = NoWindow
    BY NewEndpointForm
  <2>2. ep = <<NewEndpoint(NoWindow)>> /\ fresh = 1
    BY DEF WakeInit
  <2>3. ep \in Seq(Endpoint) /\ Len(ep) = 1 /\ DOMAIN ep = {1} /\ ep[1].moved = NoWindow
    BY <2>1, <2>2
  <2> QED BY <2>2, <2>3, Numbers DEF EndpointInv, MovedOn
<1>5. ClaimInv
  <2>1. bind = Unbound /\ PastFence = {}
    BY <1>2 DEF WakeInit, PastFence
  <2> QED BY <2>1, BindingForms DEF ClaimInv, ClaimKept, FenceAlone
<1>6. vw = [v \in Views |-> NoPage] /\ NoPage \in View /\ NoPage.pc = "none"
  <2>1. 0 \in 0 .. MaxGeneration /\ 0 \in 0 .. MaxAttempts
    BY Numbers
  <2> QED BY <2>1 DEF WakeInit, NoPage, View
<1>7. PageInv
  BY <1>6 DEF WakeInit, PageInv, PagesSound, LateSound
<1>8. SendInv
  BY <1>6 DEF WakeInit, SendInv, SentIsBegun, Senders
<1>9. hooks = {} /\ faults = 0
  BY DEF WakeInit
<1> QED BY <1>3, <1>4, <1>5, <1>7, <1>8, <1>9, Numbers DEF WakeInv

(* No step breaks the invariant, and none brings back a Wake that ended. *)
LEMMA WakeStep ==
  WakeInv /\ [WakeNext]_wvars => Goes
<1> SUFFICES ASSUME WakeInv, [WakeNext]_wvars PROVE Goes
  OBVIOUS
<1>1. CASE post_message
  BY <1>1, PostStep
<1>2. CASE create_agent_wait
  BY <1>2, CreateStep
<1>3. CASE cancel_agent_wait
  BY <1>3, CancelStep
<1>4. CASE \E t \in Tasks : TaskEnds(t)
  BY <1>4, TaskStep
<1>5. CASE \E w \in DOMAIN wakes : accept_explicit_activation(w)
  BY <1>5, ExplicitStep
<1>6. CASE \E a \in DOMAIN attempts : consume_agent_wake(a)
  BY <1>6, ConsumeStep
<1>7. CASE EndpointLapses \/ \E a \in DOMAIN attempts : ClaimLapses(a)
  BY <1>7, LapseSteps
<1>8. CASE attach_agent_endpoint \/ \E g \in DOMAIN ep : detach_agent_endpoint(g)
  BY <1>8, AttachSteps
<1>9. CASE \E g \in DOMAIN ep : reconcile_attached_endpoint(g) \/ endpoint_detached(g)
  BY <1>9, HookSteps
<1>10. CASE Takeover
  BY <1>10, TakeoverStep
<1>11. ASSUME NEW v \in Views,
              \/ Present(v) \/ Bind(v) \/ Heartbeat(v) \/ Acquire(v)
              \/ Prepare(v) \/ Probe(v) \/ Send(v) \/ Finish(v) \/ Recover(v)
              \/ Refused(v) \/ GivesUp(v) \/ Teardown(v)
       PROVE  Goes
  BY <1>11, PresentStep, BindStep, HeartbeatStep, AcquireStep, PrepareStep, ProbeStep, SendStep,
     FinishStep, RecoverStep, FailureSteps, TeardownStep
<1>12. CASE \E r \in late : LateRequest(r)
  BY <1>12, LateStep
<1>13. CASE UNCHANGED wvars
  <2>1. StoreStill /\ UNCHANGED <<ep, bind, fresh, hooks, vw, win, late, sent, faults>>
    BY <1>13 DEF wvars, StoreStill
  <2>2. faults' \in 0 .. MaxFaults
    BY <2>1 DEF WakeInv
  <2> QED BY <2>1, <2>2, StillKeeps, StoreStep DEF WakeInv
<1> QED BY <1>1, <1>2, <1>3, <1>4, <1>5, <1>6, <1>7, <1>8, <1>9, <1>10, <1>11, <1>12, <1>13 DEF WakeNext

(* The invariant the others follow from: a Wake and the Attempt it names    *)
(* are in the same state, every other Attempt was taken back before the     *)
(* fence, and a token is out or about to go out only past the fence.        *)
THEOREM WakeInvariant ==
  WakeSpec => []WakeInv
<1>1. WakeInv /\ [WakeNext]_wvars => WakeInv'
  BY WakeStep DEF Goes
<1> QED BY <1>1, WakeInitial, PTL DEF WakeSpec

(* The types of the store's tables, of the process's maps and of the Views *)
THEOREM WakeTypes ==
  WakeSpec => []WakeTypeOK
<1>1. ASSUME WakeInv PROVE WakeTypeOK
  <2>1. Len(wakes) <= MaxMessages + 1
    <3>1. Len(wakes) \in Nat /\ posted \in 0 .. MaxMessages /\ Len(wakes) <= posted + 1
      BY <1>1, StoreForms DEF WakeInv, StoreInv, StoreTypes, Room
    <3> QED BY <3>1, Numbers
  <2> QED BY <1>1, <2>1 DEF WakeInv, StoreInv, StoreTypes, Named, EndpointInv, ClaimInv, PageInv,
             SendInv, WakeTypeOK
<1> QED BY <1>1, WakeInvariant, PTL

(* A Wake starts at most one model turn, however calls are lost, repeated,  *)
(* late or overtaken by a new Endpoint (prepare_mcp_app_wake is the fence). *)
THEOREM OneTurn ==
  WakeSpec => []OneTurnPerWake
<1>1. ASSUME WakeInv PROVE OneTurnPerWake
  <2> USE <1>1
  <2>0. \A a \in DOMAIN attempts : a \in AttemptIds /\ sent[a] \in Nat
    BY StoreForms DEF WakeInv, SendInv
  <2>1. ASSUME NEW w \in DOMAIN wakes
        PROVE  Cardinality({a \in AttemptsOf(w) : Sent(a)}) <= 1
    <3>1. ASSUME NEW a \in AttemptsOf(w), Sent(a) PROVE wakes[w].att = a
      <4>1. a \in DOMAIN attempts /\ attempts[a].wake = w /\ attempts[a].st \in Begun
        BY <2>0, <3>1 DEF AttemptsOf, Sent, WakeInv, SendInv, SentIsBegun
      <4>2. attempts[a].st # "revoked"
        BY <4>1 DEF Begun, Dispatched
      <4> QED BY <4>1, <4>2 DEF WakeInv, StoreInv, AttemptLinks
    <3>2. \A a, b \in {c \in AttemptsOf(w) : Sent(c)} : a = b
      BY <3>1
    <3> QED BY <3>2, AtMostOne
  <2>2. ASSUME NEW w \in DOMAIN wakes, NEW a \in AttemptsOf(w) PROVE sent[a] <= 1
    BY <2>0 DEF AttemptsOf, WakeInv, SendInv, SentIsBegun
  <2> QED BY <2>1, <2>2 DEF OneTurnPerWake
<1> QED BY <1>1, WakeInvariant, PTL

(* One Wake at a time is past the fence.  A View's prepare and an explicit  *)
(* activation find none there (AnyDispatched); everything else that comes   *)
(* between a claim and its prepare, a new Endpoint, a replaced Server, a    *)
(* late finish, only moves Wakes on or back.                                *)
THEOREM OneDispatch ==
  WakeSpec => []OneDispatchedWake
<1>1. ASSUME WakeInv PROVE OneDispatchedWake
  <2>1. \A w, x \in PastFence : w = x
    BY <1>1 DEF WakeInv, ClaimInv, FenceAlone
  <2>2. Cardinality(PastFence) <= 1
    BY <2>1, AtMostOne
  <2> QED BY <2>2 DEF OneDispatchedWake, PastFence
<1> QED BY <1>1, WakeInvariant, PTL

(* A turn that holds the token of a Wake can consume it while the Endpoint  *)
(* it was sent for is current (consume_agent_wake).                         *)
THEOREM SentConsumable ==
  WakeSpec => []SentStaysConsumable
<1>1. ASSUME WakeInv PROVE SentStaysConsumable
  <2> SUFFICES ASSUME NEW a \in DOMAIN attempts, Sent(a), attempts[a].st # "consumed",
                      Current(attempts[a].gen)
               PROVE  Consumable(a)
    BY DEF SentStaysConsumable
  <2>1. a \in AttemptIds /\ attempts[a].st \in Dispatched
    <3>1. a \in AttemptIds
      BY <1>1, StoreForms DEF WakeInv
    <3> QED BY <1>1, <3>1 DEF WakeInv, SendInv, SentIsBegun, Sent, Begun
  <2>2. attempts[a].wake \in DOMAIN wakes /\ wakes[attempts[a].wake].att = a /\ a # 0
    <3>1. a # 0
      BY <1>1, StoreForms DEF WakeInv
    <3> QED BY <1>1, <2>1, <3>1 DEF WakeInv, StoreInv, AttemptLinks, Dispatched
  <2>3. wakes[attempts[a].wake].st \in Dispatched
    BY <1>1, <2>1, <2>2 DEF WakeInv, StoreInv, WakeLinks
  <2>4. ASSUME wakes[attempts[a].wake].kind = "wait" PROVE wait = "triggered"
    <3>1. attempts[a].wake \in WaitWake /\ wakes[attempts[a].wake].st \notin Resolved
      BY <2>2, <2>3, <2>4 DEF WaitWake, Dispatched, Resolved
    <3> QED BY <1>1, <3>1 DEF WakeInv, StoreInv, WaitLinks
  <2> QED BY <2>2, <2>3, <2>4 DEF Consumable
<1> QED BY <1>1, WakeInvariant, PTL

(* The Wait and its Wake agree, and a cancelled Wait never started a turn   *)
(* (cancel_agent_wait against claims, preparations and late answers).       *)
THEOREM WaitAndWake ==
  WakeSpec => []WaitAgrees
<1>1. ASSUME WakeInv PROVE WaitAgrees
  <2> USE <1>1
  <2>1. wait \in {"triggered", "resumed"} => Cardinality(WaitWake) = 1
    <3>1. ASSUME wait \in {"triggered", "resumed"} PROVE Cardinality(WaitWake) = 1
      <4>1. PICK w : WaitWake = {w}
        <5>1. WaitWake # {} /\ \A x, y \in WaitWake : x = y
          BY <3>1 DEF WakeInv, StoreInv, WaitLinks
        <5>2. PICK w \in WaitWake : TRUE
          BY <5>1
        <5>3. WaitWake = {w}
          BY <5>1, <5>2
        <5> QED BY <5>3
      <4> QED BY <4>1, FS_Singleton
    <3> QED BY <3>1
  <2>2. ASSUME NEW w \in WaitWake, wait = "cancelled", NEW a \in AttemptsOf(w) PROVE sent[a] = 0
    <3>1. /\ w \in DOMAIN wakes /\ wakes[w].st \in WakeStates /\ wakes[w].st \in Resolved
          /\ wakes[w].st # "consumed"
      BY <2>2, StoreForms DEF WaitWake, WakeInv, StoreInv, WaitLinks
    <3>2. wakes[w].att = 0
      BY <3>1 DEF Resolved, WakeInv, StoreInv, StoreTypes, Named
    <3>3. a \in DOMAIN attempts /\ attempts[a].wake = w /\ a \in AttemptIds /\ a # 0 /\ sent[a] \in Nat
      BY <2>2, StoreForms DEF AttemptsOf, WakeInv, SendInv
    <3>4. attempts[a].st = "revoked"
      BY <3>2, <3>3 DEF WakeInv, StoreInv, AttemptLinks
    <3>5. "revoked" \notin Begun
      BY DEF Begun, Dispatched
    <3> QED BY <3>3, <3>4, <3>5 DEF WakeInv, SendInv, SentIsBegun
  <2>3. /\ wait \in {"none", "waiting"} => WaitWake = {}
        /\ \A w \in WaitWake :
             /\ (wait = "triggered") = (wakes[w].st \notin Resolved)
             /\ (wait = "resumed") = (wakes[w].st = "consumed")
    BY DEF WakeInv, StoreInv, WaitLinks
  <2> QED BY <2>1, <2>2, <2>3 DEF WaitAgrees
<1> QED BY <1>1, WakeInvariant, PTL

(* Every message is announced: by a Wake that still takes it to a turn, or  *)
(* by one whose envelope was made after it was posted.                      *)
THEOREM MessagesAnnounced ==
  WakeSpec => []EveryMessageAnnounced
<1>1. WakeInv => EveryMessageAnnounced
  BY DEF WakeInv, StoreInv
<1> QED BY <1>1, WakeInvariant, PTL

(* A Wake consumed or retired is never brought back, by a finish, a         *)
(* recovery, a takeover or a request that arrives late.                     *)
THEOREM ResolvedStays ==
  WakeSpec => ResolvedIsFinal
<1>1. WakeInv /\ [WakeNext]_wvars =>
        [\A w \in DOMAIN wakes : wakes[w].st \in Resolved => wakes'[w].st = wakes[w].st]_wvars
  BY WakeStep DEF Goes, WakesGoOn
<1> QED BY <1>1, WakeInvariant, PTL DEF WakeSpec, ResolvedIsFinal

=============================================================================

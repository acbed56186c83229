-------------------------- MODULE ApiAccessProofs --------------------------
(***************************************************************************)
(* Proofs about the limiter store of RateLimit and the chain of ApiAccess, *)
(* for any number of calls, clients and tokens, and any burst.             *)
(*                                                                         *)
(* The store.  The evictions of a limiterStore give away at most one       *)
(* bucket: the ghost bucket ideal[k] must cover what the client can still  *)
(* spend: the bucket it would get now, a bucket evicted under a call that  *)
(* still holds it, and a full one more while the client is doomed.  It     *)
(* does because a bucket must be idle long enough for the ghost to fill    *)
(* up, and there is at most one evicted bucket in flight.  And a token     *)
(* that is missing from a bucket was spent by its client: since any time   *)
(* the client was admitted as often as the bucket has lost tokens since,   *)
(* which is what makes a refusal the client's own doing.                   *)
(*                                                                         *)
(* The chain.  A step of the chain is a step of the limiterStore or leaves *)
(* it alone, so what is shown of the store holds of the chain.  The other  *)
(* properties follow from TokensTellTheTruth, what a token says was so     *)
(* when it was issued, and from what the history of a request has recorded *)
(* by the time it reaches the limiter.                                     *)
(***************************************************************************)
EXTENDS ApiAccess, FiniteSetTheorems, TLAPS

-----------------------------------------------------------------------------
(* The store.                                                              *)

Held(c) == lpc[c] = "allow"

\* c holds a bucket that was evicted.
Orphan(c) == Held(c) /\ limiter[c] # limiters[key[c]]

\* What the bucket holds that a request of k finds.
Current(k) == IF limiters[k] = None THEN Burst ELSE tokens[limiters[k]]

\* A bucket serves one client.
BucketsHaveAClient ==
  /\ \A k \in Keys : limiters[k] # None => key[limiters[k]] = k
  /\ \A c \in Calls : lpc[c] = "store" => key[c] \in Keys
  /\ \A c \in Calls : Held(c) => /\ key[c] \in Keys
                                 /\ limiter[c] \in Calls
                                 /\ key[limiter[c]] = key[c]

\* The bucket of a call that has not stored it is full and unknown.
NewBucketsAreFull ==
  \A c \in Calls : lpc[c] \in {"idle", "store"} =>
    /\ tokens[c] = Burst
    /\ \A k \in Keys : limiters[k] # c
    /\ \A d \in Calls : Held(d) => limiter[d] # c

\* The calls of one client that hold an evicted bucket hold the same one, and
\* the bucket that replaces it is new.
OneOrphan ==
  \A c \in Calls : Orphan(c) =>
    /\ doomed # key[c]
    /\ limiters[key[c]] # None => lastSeen[limiters[key[c]]] = now
    /\ \A d \in Calls : Orphan(d) /\ key[d] = key[c] => limiter[d] = limiter[c]

\* A bucket in use was seen now.
SeenInUse ==
  /\ \A c \in Calls : Held(c) /\ ~ Orphan(c) => lastSeen[limiter[c]] = now
  /\ \A c \in Calls : lastSeen[c] <= now

\* The ghost covers what the client can spend ...
Covered ==
  /\ \A k \in Keys : ideal[k] >= Current(k) + (IF doomed = k THEN Burst ELSE 0)
  /\ \A c \in Calls : Orphan(c) => ideal[key[c]] >= Current(key[c]) + tokens[limiter[c]]

\* ... and fills up while the bucket is idle.
FillsUp ==
  \A k \in Keys : limiters[k] # None =>
    ideal[k] >= Least(2 * Burst, now - lastSeen[limiters[k]])

IInv == /\ LimiterTypeOK
        /\ BucketsHaveAClient
        /\ NewBucketsAreFull
        /\ OneOrphan
        /\ SeenInUse
        /\ Covered
        /\ FillsUp

LEMMA InitIInv == LimiterInit => IInv
<1> SUFFICES ASSUME LimiterInit PROVE IInv
  OBVIOUS
<1> USE LimiterAssumption DEF LimiterInit
<1>1. LimiterTypeOK
  BY DEF LimiterTypeOK
<1>2. BucketsHaveAClient /\ NewBucketsAreFull /\ OneOrphan /\ SeenInUse
  BY DEF BucketsHaveAClient, NewBucketsAreFull, OneOrphan, SeenInUse, Orphan, Held
<1>3. Covered /\ FillsUp
  BY DEF Covered, FillsUp, Current, Orphan, Held
<1> QED
  BY <1>1, <1>2, <1>3 DEF IInv

\* A call that gets the bucket l of its client, which is the one in the map.
LEMMA LoadIInv == ASSUME IInv, NEW c \in Calls, NEW k \in Keys, Load(c, k) PROVE IInv'
<1> USE LimiterAssumption DEF IInv
<1>1. LimiterTypeOK'
  BY DEF Load, Get, LGoto, LimiterTypeOK, InFlight
<1>2. BucketsHaveAClient'
  BY DEF Load, Get, LGoto, LimiterTypeOK, BucketsHaveAClient, Held, NewBucketsAreFull
<1>3. NewBucketsAreFull'
  BY DEF Load, Get, LGoto, LimiterTypeOK, BucketsHaveAClient, Held, NewBucketsAreFull
<1>4. \A d \in Calls : Orphan(d)' => /\ d # c /\ Orphan(d)
                                     /\ key'[d] = key[d] /\ limiter'[d] = limiter[d]
  BY DEF Load, Get, LGoto, LimiterTypeOK, Held, Orphan
<1>5. OneOrphan'
  BY <1>4 DEF Load, Get, LGoto, LimiterTypeOK, OneOrphan, BucketsHaveAClient, Orphan, Held
<1>6. SeenInUse'
  <2>1. ASSUME NEW d \in Calls, Held(d)', ~ Orphan(d)' PROVE lastSeen'[limiter'[d]] = now'
    <3>1. CASE d = c
      BY <2>1, <3>1 DEF Load, Get, LGoto, LimiterTypeOK, Held
    <3>2. CASE d # c
      BY <2>1, <3>2 DEF Load, Get, LGoto, LimiterTypeOK, SeenInUse, Orphan, Held, BucketsHaveAClient
    <3> QED
      BY <3>1, <3>2
  <2>2. \A d \in Calls : lastSeen'[d] <= now'
    BY DEF Load, Get, LimiterTypeOK, SeenInUse
  <2> QED
    BY <2>1, <2>2 DEF SeenInUse
<1>7. Covered'
  BY <1>4 DEF Load, Get, LGoto, LimiterTypeOK, Covered, Current, BucketsHaveAClient, Orphan, Held
<1>8. FillsUp'
  <2> SUFFICES ASSUME NEW j \in Keys, limiters'[j] # None
               PROVE  ideal'[j] >= Least(2 * Burst, now - lastSeen'[limiters[j]])
    BY DEF Load, Get, LGoto, FillsUp
  <2>1. CASE lastSeen'[limiters[j]] = lastSeen[limiters[j]]
    BY <2>1 DEF Load, Get, FillsUp
  <2>2. CASE lastSeen'[limiters[j]] = now
    BY <2>2 DEF Load, Get, LimiterTypeOK, Covered, Current, Least
  <2> QED
    BY <2>1, <2>2 DEF Load, Get, LimiterTypeOK
<1> QED
  BY <1>1, <1>2, <1>3, <1>5, <1>6, <1>7, <1>8

LEMMA LoadOrStoreIInv == ASSUME IInv, NEW c \in Calls, LoadOrStore(c) PROVE IInv'
<1> USE LimiterAssumption DEF IInv
<1>1. LimiterTypeOK'
  BY DEF LoadOrStore, Get, LGoto, LimiterTypeOK, InFlight, BucketsHaveAClient
<1>2. BucketsHaveAClient'
  BY DEF LoadOrStore, Get, LGoto, LimiterTypeOK, BucketsHaveAClient, Held, NewBucketsAreFull
<1>3. NewBucketsAreFull'
  BY DEF LoadOrStore, Get, LGoto, LimiterTypeOK, BucketsHaveAClient, Held, NewBucketsAreFull
<1>4. \A d \in Calls : Orphan(d)' => /\ d # c /\ Orphan(d)
                                     /\ key'[d] = key[d] /\ limiter'[d] = limiter[d]
  BY DEF LoadOrStore, Get, LGoto, LimiterTypeOK, Held, Orphan, BucketsHaveAClient
<1>5. OneOrphan'
  BY <1>4 DEF LoadOrStore, Get, LGoto, LimiterTypeOK, OneOrphan, BucketsHaveAClient, Orphan, Held
<1>6. SeenInUse'
  <2>1. ASSUME NEW d \in Calls, Held(d)', ~ Orphan(d)' PROVE lastSeen'[limiter'[d]] = now'
    <3>1. CASE d = c
      BY <2>1, <3>1 DEF LoadOrStore, Get, LGoto, LimiterTypeOK, Held, BucketsHaveAClient
    <3>2. CASE d # c
      BY <2>1, <3>2 DEF LoadOrStore, Get, LGoto, LimiterTypeOK, SeenInUse, Orphan, Held,
                        BucketsHaveAClient, NewBucketsAreFull
    <3> QED
      BY <3>1, <3>2
  <2>2. \A d \in Calls : lastSeen'[d] <= now'
    BY DEF LoadOrStore, Get, LimiterTypeOK, SeenInUse
  <2> QED
    BY <2>1, <2>2 DEF SeenInUse
<1>7. Covered'
  BY <1>4 DEF LoadOrStore, Get, LGoto, LimiterTypeOK, Covered, Current, BucketsHaveAClient, Orphan, Held
<1>8. FillsUp'
  BY DEF LoadOrStore, Get, LGoto, LimiterTypeOK, Covered, Current, FillsUp, Least
<1> QED
  BY <1>1, <1>2, <1>3, <1>5, <1>6, <1>7, <1>8

LEMMA AllowIInv == ASSUME IInv, NEW c \in Calls, Allow(c) PROVE IInv'
<1> USE LimiterAssumption DEF IInv
<1>1. LimiterTypeOK'
  BY DEF Allow, LGoto, LimiterTypeOK, InFlight, BucketsHaveAClient, Held
<1>2. BucketsHaveAClient'
  BY DEF Allow, LGoto, LimiterTypeOK, BucketsHaveAClient, Held
<1>3. NewBucketsAreFull'
  BY DEF Allow, LGoto, LimiterTypeOK, BucketsHaveAClient, Held, NewBucketsAreFull
<1>4. \A d \in Calls : Orphan(d)' => /\ d # c /\ Orphan(d)
                                     /\ key'[d] = key[d] /\ limiter'[d] = limiter[d]
  BY DEF Allow, LGoto, LimiterTypeOK, Held, Orphan
<1>5. OneOrphan'
  BY <1>4 DEF Allow, LGoto, LimiterTypeOK, OneOrphan, BucketsHaveAClient, Orphan, Held
<1>6. SeenInUse'
  BY DEF Allow, LGoto, LimiterTypeOK, SeenInUse, Orphan, Held
<1>7. Covered'
  BY <1>4 DEF Allow, LGoto, LimiterTypeOK, Covered, Current, BucketsHaveAClient, OneOrphan, Orphan, Held
<1>8. FillsUp'
  <2>1. \A j \in Keys : (j # key[c] => ideal'[j] = ideal[j]) /\ ideal'[j] \in Int
    BY DEF Allow, LimiterTypeOK
  <2>2. CASE tokens[limiter[c]] > 0
    <3>1. /\ limiter[c] \in Calls /\ key[c] \in Keys /\ tokens[limiter[c]] \in 1..Burst
      BY <2>2 DEF Allow, BucketsHaveAClient, Held, LimiterTypeOK
    <3>2. ideal'[key[c]] = ideal[key[c]] - 1 /\ ideal[key[c]] - 1 >= 0
      <4>1. CASE Orphan(c)
        BY <2>2, <3>1, <4>1 DEF Allow, Covered, Current, LimiterTypeOK
      <4>2. CASE ~ Orphan(c)
        BY <2>2, <3>1, <4>2 DEF Allow, Covered, Current, LimiterTypeOK, Orphan, Held
      <4> QED
        BY <4>1, <4>2
    <3>3. limiters[key[c]] # None => lastSeen[limiters[key[c]]] = now
      BY <3>1 DEF Allow, SeenInUse, OneOrphan, Orphan, Held
    <3>4. Least(2 * Burst, now - now) = 0
      BY DEF Least, LimiterTypeOK
    <3> QED
      BY <2>1, <3>1, <3>2, <3>3, <3>4 DEF Allow, FillsUp
  <2>3. CASE ~ (tokens[limiter[c]] > 0)
    BY <2>3 DEF Allow, FillsUp
  <2> QED
    BY <2>2, <2>3
<1> QED
  BY <1>1, <1>2, <1>3, <1>5, <1>6, <1>7, <1>8

LEMMA LookIInv == ASSUME IInv, NEW k \in Keys, Look(k) PROVE IInv'
<1> USE LimiterAssumption DEF IInv, Look, callVars
<1>1. \A c \in Calls : (Held(c)' <=> Held(c)) /\ (Orphan(c)' <=> Orphan(c))
  BY DEF Held, Orphan
<1>2. \A c \in Calls : Orphan(c) => key[c] # k
  BY DEF OneOrphan, IsIdle, LimiterTypeOK
<1>3. ideal[k] >= 2 * Burst
  BY DEF FillsUp, IsIdle, Least, LimiterTypeOK
<1>4. LimiterTypeOK' /\ BucketsHaveAClient' /\ NewBucketsAreFull'
  BY <1>1 DEF LimiterTypeOK, BucketsHaveAClient, NewBucketsAreFull
<1>5. OneOrphan' /\ SeenInUse'
  BY <1>1, <1>2 DEF OneOrphan, SeenInUse
<1>6. Covered'
  BY <1>1, <1>2, <1>3 DEF Covered, Current, LimiterTypeOK
<1>7. FillsUp'
  BY DEF FillsUp
<1> QED
  BY <1>4, <1>5, <1>6, <1>7

LEMMA EvictIInv == ASSUME IInv, Evict PROVE IInv'
<1> USE LimiterAssumption DEF IInv, Evict, callVars
<1>1. \A c \in Calls : /\ Held(c)' <=> Held(c)
                       /\ Held(c) /\ key[c] = doomed => ~ Orphan(c) /\ limiter[c] = limiters[doomed]
                       /\ key[c] # doomed => (Orphan(c)' <=> Orphan(c))
  BY DEF Held, Orphan, OneOrphan, BucketsHaveAClient, LimiterTypeOK
<1>2. LimiterTypeOK' /\ BucketsHaveAClient' /\ NewBucketsAreFull'
  BY <1>1 DEF LimiterTypeOK, BucketsHaveAClient, NewBucketsAreFull
<1>3. OneOrphan'
  BY <1>1 DEF OneOrphan, LimiterTypeOK, Orphan, Held, BucketsHaveAClient
<1>4. SeenInUse'
  BY <1>1 DEF SeenInUse, Orphan, Held
<1>5. Covered'
  BY <1>1 DEF Covered, Current, LimiterTypeOK, Orphan, Held, BucketsHaveAClient
<1>6. FillsUp'
  BY DEF FillsUp, LimiterTypeOK
<1> QED
  BY <1>2, <1>3, <1>4, <1>5, <1>6

LEMMA TickIInv == ASSUME IInv, Tick PROVE IInv'
<1> USE LimiterAssumption DEF IInv, Tick, callVars
<1>1. \A c \in Calls : ~ Held(c) /\ ~ Held(c)' /\ ~ Orphan(c)'
  BY DEF Held, Orphan, InFlight
<1>2. LimiterTypeOK'
  BY DEF LimiterTypeOK, Refilled, Least
<1>3. BucketsHaveAClient' /\ NewBucketsAreFull' /\ OneOrphan' /\ SeenInUse'
  BY <1>1 DEF BucketsHaveAClient, NewBucketsAreFull, OneOrphan, SeenInUse, LimiterTypeOK, Refilled, Least
<1>4. Covered'
  BY <1>1 DEF Covered, Current, LimiterTypeOK, Refilled, Least
<1>5. FillsUp'
  BY DEF FillsUp, LimiterTypeOK, Least
<1> QED
  BY <1>2, <1>3, <1>4, <1>5

LEMMA NextIInv == IInv /\ [LimiterNext]_limiterVars => IInv'
<1> SUFFICES ASSUME IInv, [LimiterNext]_limiterVars PROVE IInv'
  OBVIOUS
<1>1. ASSUME NEW c \in Calls, Limit(c) PROVE IInv'
  BY <1>1, LoadOrStoreIInv, AllowIInv DEF Limit
<1>2. ASSUME NEW c \in Calls, NEW k \in Keys, Load(c, k) PROVE IInv'
  BY <1>2, LoadIInv
<1>3. CASE Evictor
  BY <1>3, LookIInv, EvictIInv DEF Evictor
<1>4. CASE Tick
  BY <1>4, TickIInv
<1>5. CASE UNCHANGED limiterVars
  BY <1>5 DEF IInv, LimiterTypeOK, BucketsHaveAClient, NewBucketsAreFull, OneOrphan, SeenInUse,
              Covered, FillsUp, Current, Orphan, Held, limiterVars, callVars
<1> QED
  BY <1>1, <1>2, <1>3, <1>4, <1>5 DEF LimiterNext

LEMMA IInvSafe == IInv => WithinTwiceTheBurst
  BY LimiterAssumption DEF IInv, Covered, Current, LimiterTypeOK, WithinTwiceTheBurst

-----------------------------------------------------------------------------
(* What a refusal means.                                                   *)

\* The calls of k admitted at s or later.
Admitted(k, s) == {q \in Calls : lpc[q] = "admitted" /\ key[q] = k /\ at[q] >= s}

\* A behaviour has seen finitely many calls so far.
FewCalls == IsFiniteSet({c \in Calls : lpc[c] # "idle"})

\* A bucket gains a token in a tick, and it may overflow: at s it held one at
\* least, so since then its client was admitted as often as this, at the least.
TokensWereSpent ==
  \A c \in Calls, s \in Int : s <= now =>
    Cardinality(Admitted(key[c], s)) >= Least(Burst, now - s + 1) - tokens[c]

RefusedForItsOwn ==
  \A c \in Calls : lpc[c] = "refused" =>
    Cardinality(Admitted(key[c], at[c] - Burst + 1)) >= Burst

TInv == FewCalls /\ TokensWereSpent /\ RefusedForItsOwn

LEMMA AdmittedFinite ==
  ASSUME FewCalls, NEW k, NEW s PROVE IsFiniteSet(Admitted(k, s)) /\ Cardinality(Admitted(k, s)) \in Nat
<1>1. Admitted(k, s) \subseteq {c \in Calls : lpc[c] # "idle"}
  BY DEF Admitted
<1> QED
  BY <1>1, FS_Subset, FS_CardinalityType DEF FewCalls

\* What was admitted stays so, and a step has one call of the client admitted at
\* the most.
LEMMA AdmittedGrows ==
  ASSUME FewCalls', \A q \in Calls : lpc[q] = "admitted" =>
                       lpc'[q] = "admitted" /\ key'[q] = key[q] /\ at'[q] = at[q],
         NEW k, NEW s
  PROVE  /\ Cardinality(Admitted(k, s)) \in Nat
         /\ Cardinality(Admitted(k, s)') \in Nat
         /\ Cardinality(Admitted(k, s)) <= Cardinality(Admitted(k, s)')
<1>1. Admitted(k, s) \subseteq Admitted(k, s)'
  BY DEF Admitted
<1>2. Admitted(k, s)' \subseteq {c \in Calls : lpc'[c] # "idle"}
  BY DEF Admitted
<1>3. IsFiniteSet(Admitted(k, s)')
  BY <1>2, FS_Subset DEF FewCalls
<1> QED
  BY <1>1, <1>3, FS_Subset, FS_CardinalityType

LEMMA FewCallsStep ==
  ASSUME IInv, FewCalls, [LimiterNext]_limiterVars PROVE FewCalls'
<1> DEFINE Begun == {c \in Calls : lpc[c] # "idle"}
<1>1. ASSUME NEW c \in Calls, \/ Limit(c) \/ \E k \in Keys : Load(c, k) PROVE Begun' \subseteq Begun \cup {c}
  BY <1>1 DEF Limit, Load, LoadOrStore, Allow, Get, LGoto, IInv, LimiterTypeOK
<1>2. CASE Evictor \/ Tick \/ UNCHANGED limiterVars
  BY <1>2 DEF Evictor, Look, Evict, Tick, limiterVars, callVars, FewCalls
<1>3. ASSUME NEW c \in Calls, Begun' \subseteq Begun \cup {c} PROVE FewCalls'
  <2>1. IsFiniteSet(Begun \cup {c})
    BY FS_AddElement DEF FewCalls
  <2> QED
    BY <1>3, <2>1, FS_Subset DEF FewCalls
<1> QED
  BY <1>1, <1>2, <1>3 DEF LimiterNext

\* What every step leaves of the calls that are through.
LEMMA ThroughStays ==
  ASSUME IInv, [LimiterNext]_limiterVars, NEW q \in Calls, lpc[q] \in {"admitted", "refused"}
  PROVE  lpc'[q] = lpc[q] /\ key'[q] = key[q] /\ at'[q] = at[q]
<1>1. ASSUME NEW c \in Calls, \/ Limit(c) \/ \E k \in Keys : Load(c, k)
      PROVE  lpc'[q] = lpc[q] /\ key'[q] = key[q] /\ at'[q] = at[q]
  BY <1>1 DEF Limit, Load, LoadOrStore, Allow, Get, LGoto, IInv, LimiterTypeOK
<1>2. CASE Evictor \/ Tick \/ UNCHANGED limiterVars
  BY <1>2 DEF Evictor, Look, Evict, Tick, limiterVars, callVars
<1> QED
  BY <1>1, <1>2 DEF LimiterNext

\* A step that leaves a bucket's contents and client alone, and the time.
LEMMA SpentUnchanged ==
  ASSUME IInv, TInv, [LimiterNext]_limiterVars, NEW c \in Calls, NEW s \in Int, s <= now',
         now' = now, tokens'[c] = tokens[c], NEW k, key[c] = k
  PROVE  Cardinality(Admitted(k, s)') >= Least(Burst, now - s + 1) - tokens[c]
<1>1. /\ Cardinality(Admitted(k, s)) \in Nat
      /\ Cardinality(Admitted(k, s)') \in Nat
      /\ Cardinality(Admitted(k, s)) <= Cardinality(Admitted(k, s)')
  BY FewCallsStep, ThroughStays, AdmittedGrows DEF TInv
<1>2. Cardinality(Admitted(k, s)) >= Least(Burst, now - s + 1) - tokens[c]
  BY DEF TInv, TokensWereSpent
<1>3. Least(Burst, now - s + 1) - tokens[c] \in Int
  BY LimiterAssumption DEF Least, IInv, LimiterTypeOK
<1> QED
  BY <1>1, <1>2, <1>3

\* One call more of c's client is admitted now.
LEMMA AllowSpends ==
  ASSUME IInv, TInv, NEW c \in Calls, Allow(c), tokens[limiter[c]] > 0, NEW s \in Int, s <= now,
         NEW k, key[c] = k
  PROVE  Cardinality(Admitted(k, s)') = Cardinality(Admitted(k, s)) + 1
<1>1. Admitted(k, s)' = Admitted(k, s) \cup {c}
  BY DEF Admitted, Allow, LGoto, IInv, LimiterTypeOK
<1>2. c \notin Admitted(k, s)
  BY DEF Admitted, Allow
<1> QED
  BY <1>1, <1>2, AdmittedFinite, FS_AddElement DEF TInv

LEMMA SpentStep ==
  ASSUME IInv, TInv, [LimiterNext]_limiterVars PROVE TokensWereSpent'
<1> SUFFICES ASSUME NEW b \in Calls, NEW s \in Int, s <= now', NEW k, key'[b] = k
             PROVE  Cardinality(Admitted(k, s)') >= Least(Burst, now' - s + 1) - tokens'[b]
  BY DEF TokensWereSpent, Admitted
<1> USE LimiterAssumption
<1>0. /\ now \in Nat /\ tokens[b] \in 0..Burst
      /\ now' \in Nat /\ tokens'[b] \in 0..Burst
  BY NextIInv DEF IInv, LimiterTypeOK
<1>1. ASSUME tokens'[b] = Burst
      PROVE  Cardinality(Admitted(k, s)') >= Least(Burst, now' - s + 1) - tokens'[b]
  <2>1. Cardinality(Admitted(k, s)') \in Nat
    BY FewCallsStep, ThroughStays, AdmittedGrows DEF TInv
  <2> QED
    BY <1>0, <1>1, <2>1 DEF Least
<1>2. CASE \E c \in Calls, j \in Keys : Load(c, j)
  <2>1. PICK c \in Calls, j \in Keys : Load(c, j)
    BY <1>2
  <2>2. CASE b = c
    BY <1>0, <1>1, <2>1, <2>2 DEF Load, IInv, NewBucketsAreFull
  <2>3. CASE b # c
    BY <2>1, <2>3, SpentUnchanged DEF Load, IInv, LimiterTypeOK
  <2> QED
    BY <2>2, <2>3
<1>3. CASE \E c \in Calls : LoadOrStore(c)
  BY <1>3, SpentUnchanged DEF LoadOrStore
<1>4. CASE \E c \in Calls : Allow(c)
  <2>1. PICK c \in Calls : Allow(c)
    BY <1>4
  <2>2. CASE b = limiter[c] /\ tokens[b] > 0
    <3>1. key[b] = k /\ key[c] = k /\ tokens'[b] = tokens[b] - 1 /\ now' = now
      BY <2>1, <2>2 DEF Allow, IInv, BucketsHaveAClient, Held, LimiterTypeOK
    <3>2. Cardinality(Admitted(k, s)') = Cardinality(Admitted(k, s)) + 1
      BY <2>1, <2>2, <3>1, AllowSpends
    <3>3. Cardinality(Admitted(k, s)) >= Least(Burst, now - s + 1) - tokens[b]
      BY <3>1 DEF TInv, TokensWereSpent
    <3>4. Cardinality(Admitted(k, s)) \in Nat
      BY AdmittedFinite DEF TInv
    <3>5. Least(Burst, now - s + 1) \in Int
      BY <1>0 DEF Least
    <3> QED
      BY <1>0, <3>1, <3>2, <3>3, <3>4, <3>5
  <2>3. CASE ~ (b = limiter[c] /\ tokens[b] > 0)
    <3>1. tokens'[b] = tokens[b] /\ key[b] = k /\ now' = now
      BY <2>1, <2>3 DEF Allow, IInv, LimiterTypeOK
    <3> QED
      BY <3>1, SpentUnchanged
  <2> QED
    BY <2>2, <2>3
<1>5. CASE Evictor \/ UNCHANGED limiterVars
  BY <1>5, SpentUnchanged DEF Evictor, Look, Evict, limiterVars, callVars
<1>6. CASE Tick
  <2>1. now' = now + 1 /\ tokens'[b] = Least(Burst, tokens[b] + 1) /\ key[b] = k
    BY <1>6 DEF Tick, Refilled, callVars
  <2>2. CASE s = now + 1
    <3>1. Cardinality(Admitted(k, s)') \in Nat
      BY FewCallsStep, ThroughStays, AdmittedGrows DEF TInv
    <3> QED
      BY <1>0, <2>1, <2>2, <3>1 DEF Least
  <2>3. CASE s <= now
    <3>1. /\ Cardinality(Admitted(k, s)) \in Nat
          /\ Cardinality(Admitted(k, s)') \in Nat
          /\ Cardinality(Admitted(k, s)) <= Cardinality(Admitted(k, s)')
      BY FewCallsStep, ThroughStays, AdmittedGrows DEF TInv
    <3>2. Cardinality(Admitted(k, s)) >= Least(Burst, now - s + 1) - tokens[b]
      BY <2>1, <2>3 DEF TInv, TokensWereSpent
    <3>3. Least(Burst, now + 1 - s + 1) - Least(Burst, tokens[b] + 1) <= 0
             \/ Least(Burst, now + 1 - s + 1) - Least(Burst, tokens[b] + 1)
                   <= Least(Burst, now - s + 1) - tokens[b]
      BY <1>0, <2>3 DEF Least
    <3>4. /\ Least(Burst, now - s + 1) - tokens[b] \in Int
          /\ Least(Burst, now + 1 - s + 1) - Least(Burst, tokens[b] + 1) \in Int
      BY <1>0 DEF Least
    <3> QED
      BY <1>0, <2>1, <3>1, <3>2, <3>3, <3>4
  <2> QED
    BY <1>0, <2>1, <2>2, <2>3
<1> QED
  BY <1>2, <1>3, <1>4, <1>5, <1>6 DEF LimiterNext, Limit

\* A call is refused when its client has spent a whole burst in so many ticks.
LEMMA RefusedStep ==
  ASSUME IInv, TInv, [LimiterNext]_limiterVars PROVE RefusedForItsOwn'
<1> SUFFICES ASSUME NEW r \in Calls, lpc'[r] = "refused",
                    NEW k, key'[r] = k, NEW s, at'[r] - Burst + 1 = s
             PROVE  Cardinality(Admitted(k, s)') >= Burst
  BY DEF RefusedForItsOwn, Admitted
<1> USE LimiterAssumption
<1>0. IInv' /\ at[r] \in Nat /\ now \in Nat
  BY NextIInv DEF IInv, LimiterTypeOK
<1>1. CASE lpc[r] = "refused"
  <2>1. key[r] = k /\ at[r] - Burst + 1 = s
    BY <1>1, ThroughStays
  <2>2. Cardinality(Admitted(k, s)) >= Burst
    BY <1>1, <2>1 DEF TInv, RefusedForItsOwn
  <2>3. /\ Cardinality(Admitted(k, s)) \in Nat
        /\ Cardinality(Admitted(k, s)') \in Nat
        /\ Cardinality(Admitted(k, s)) <= Cardinality(Admitted(k, s)')
    BY FewCallsStep, ThroughStays, AdmittedGrows DEF TInv
  <2> QED
    BY <2>1, <2>2, <2>3
<1>2. CASE lpc[r] # "refused"
  <2>1. Allow(r) /\ ~ (tokens[limiter[r]] > 0)
    <3>1. ASSUME NEW c \in Calls, Limit(c) \/ \E b \in Keys : Load(c, b)
          PROVE  Allow(r) /\ ~ (tokens[limiter[r]] > 0)
      BY <1>2, <3>1 DEF Limit, Load, LoadOrStore, Allow, Get, LGoto, IInv, LimiterTypeOK
    <3>2. CASE Evictor \/ Tick \/ UNCHANGED limiterVars
      BY <1>2, <3>2 DEF Evictor, Look, Evict, Tick, limiterVars, callVars
    <3> QED
      BY <3>1, <3>2 DEF LimiterNext
  <2> DEFINE l == limiter[r]
  <2>2. /\ l \in Calls /\ key[l] = k /\ tokens[l] = 0
        /\ tokens'[l] = tokens[l] /\ now' = now /\ at'[r] = now
    BY <2>1 DEF Allow, IInv, BucketsHaveAClient, Held, LimiterTypeOK
  <2>3. s \in Int /\ s <= now /\ now - s + 1 = Burst
    BY <1>0, <2>2
  <2>4. Cardinality(Admitted(k, s)') >= Least(Burst, now - s + 1) - tokens[l]
    BY <2>2, <2>3, SpentUnchanged
  <2>5. Cardinality(Admitted(k, s)') >= Burst
    BY <2>2, <2>3, <2>4 DEF Least
  <2> QED
    BY <2>5
<1> QED
  BY <1>1, <1>2

LEMMA InitTInv == LimiterInit => TInv
<1> SUFFICES ASSUME LimiterInit PROVE TInv
  OBVIOUS
<1> USE LimiterAssumption DEF LimiterInit
<1>1. FewCalls
  <2>1. {c \in Calls : lpc[c] # "idle"} = {}
    OBVIOUS
  <2> QED
    BY <2>1, FS_EmptySet DEF FewCalls
<1>2. TokensWereSpent
  <2> SUFFICES ASSUME NEW c \in Calls, NEW s \in Int
               PROVE  Cardinality(Admitted(key[c], s)) >= Least(Burst, now - s + 1) - tokens[c]
    BY DEF TokensWereSpent
  <2>1. Cardinality(Admitted(key[c], s)) \in Nat
    BY <1>1, AdmittedFinite
  <2>2. tokens[c] = Burst /\ now = 0
    OBVIOUS
  <2> QED
    BY <2>1, <2>2 DEF Least
<1>3. RefusedForItsOwn
  BY DEF RefusedForItsOwn
<1> QED
  BY <1>1, <1>2, <1>3 DEF TInv

LEMMA NextTInv == IInv /\ TInv /\ [LimiterNext]_limiterVars => TInv'
  BY FewCallsStep, SpentStep, RefusedStep DEF TInv

\* The store's type invariant, for all constants.
THEOREM LimiterTypes == LimiterSpec => []LimiterTypeOK
<1>1. IInv => LimiterTypeOK
  BY DEF IInv
<1> QED
  BY <1>1, InitIInv, NextIInv, PTL DEF LimiterSpec

\* No client is let through faster than a bucket of twice the burst allows,
\* whatever the eviction deletes under the calls of getLimiter.
THEOREM WithinTwice == LimiterSpec => []WithinTwiceTheBurst
  BY IInvSafe, InitIInv, NextIInv, PTL DEF LimiterSpec

\* A call that finds no token is refused for its client's own calls: in the ticks
\* in which a whole burst comes back they have spent one.
THEOREM RefusedForOwnCalls == LimiterSpec => []RefusedForItsOwn
<1>1. TInv => RefusedForItsOwn
  BY DEF TInv
<1> QED
  BY <1>1, InitIInv, NextIInv, InitTInv, NextTInv, PTL DEF LimiterSpec

-----------------------------------------------------------------------------
(* The chain.                                                              *)

AccessTypeOK == TypeOK /\ \A u \in Keys : lastAdmin[u] <= now

\* A request that is under way carries an issued token.
RequestsCarryTokens ==
  \A r \in Calls : /\ apc[r] # "idle" => token[r] \in AccessTokens /\ claims[token[r]] # None
                   /\ apc[r] # "limit" => lpc[r] = "idle"

\* Whoever was read to be an admin was one then or is one later.
Told(t) == issue[t] # None /\ issue[t].role = "admin" =>
             LastAdmin(issue[t].user) >= issue[t].read

\* A token says what was read.
Signed(t) == claims[t] # None => /\ issue[t] # None
                                 /\ claims[t].user = issue[t].user
                                 /\ claims[t].role = issue[t].role

TokensTellTheTruth == \A t \in AccessTokens : Told(t) /\ Signed(t)

Arrived(r) == apc[r] # "idle" /\ claims[token[r]].role = "admin" => wasAdmin[r]

Active(r) == /\ apc[r] = "lookup" /\ is_active[User(r)] => sawActive[r]
             /\ apc[r] = "limit" => sawActive[r]

Histories == \A r \in Calls : Arrived(r) /\ Active(r)

AInv == IInv /\ AccessTypeOK /\ RequestsCarryTokens /\ TokensTellTheTruth /\ Histories

-----------------------------------------------------------------------------
\* What a step may be, and what it does to the store.
LEMMA NextCases ==
  ASSUME [Next]_vars
  PROVE  \/ \E t \in AccessTokens : ReadUser(t)
         \/ \E t \in AccessTokens : Sign(t)
         \/ \E u \in Keys, rl \in Roles : SetRole(u, rl)
         \/ \E u \in Keys, b \in BOOLEAN : SetActive(u, b)
         \/ \E r \in Calls, t \in AccessTokens : Arrive(r, t)
         \/ \E r \in Calls : LookUpUser(r)
         \/ \E r \in Calls : RateLimit(r)
         \/ Evictor /\ UNCHANGED accessVars
         \/ Tick /\ UNCHANGED accessVars
         \/ UNCHANGED vars
  BY AccessAssumption DEF Next

\* The key of a request is the user its token was issued to.
LEMMA StepsOfTheStore ==
  ASSUME AInv, [Next]_vars PROVE [LimiterNext]_limiterVars
<1>1. ASSUME NEW r \in Calls, RateLimit(r) PROVE LimiterNext
  <2>1. LimiterKey(r) \in Keys
    BY <1>1 DEF RateLimit, LimiterKey, AInv, RequestsCarryTokens, AccessTypeOK, TypeOK, Claims
  <2> QED
    BY <1>1, <2>1 DEF RateLimit, LimiterNext
<1>2. CASE \/ \E t \in AccessTokens : ReadUser(t)
           \/ \E t \in AccessTokens : Sign(t)
  BY <1>2 DEF ReadUser, Sign
<1>3. CASE \E u \in Keys, rl \in Roles : SetRole(u, rl)
  BY <1>3 DEF SetRole
<1>4. CASE \E u \in Keys, b \in BOOLEAN : SetActive(u, b)
  BY <1>4 DEF SetActive
<1>5. CASE \E r \in Calls, t \in AccessTokens : Arrive(r, t)
  BY <1>5 DEF Arrive
<1>6. CASE \E r \in Calls : LookUpUser(r)
  BY <1>6 DEF LookUpUser
<1>7. CASE Evictor \/ Tick
  BY <1>7 DEF LimiterNext
<1>8. CASE UNCHANGED vars
  BY <1>8 DEF vars
<1> QED
  BY <1>1, <1>2, <1>3, <1>4, <1>5, <1>6, <1>7, <1>8, NextCases

LEMMA InitAInv == Init => AInv
<1> SUFFICES ASSUME Init PROVE AInv
  OBVIOUS
<1> USE DEF Init
<1>1. IInv /\ LimiterTypeOK
  BY InitIInv DEF IInv
<1>2. AccessTypeOK
  BY <1>1, LimiterAssumption, AccessAssumption DEF AccessTypeOK, TypeOK, Roles, LimiterInit
<1>3. RequestsCarryTokens /\ TokensTellTheTruth /\ Histories
  BY DEF RequestsCarryTokens, TokensTellTheTruth, Told, Signed, Histories, Arrived, Active,
         LimiterInit
<1> QED
  BY <1>1, <1>2, <1>3 DEF AInv

-----------------------------------------------------------------------------
\* The store's part of the invariant.
LEMMA StoreAInv == ASSUME AInv, [Next]_vars PROVE IInv' /\ LimiterTypeOK'
  BY StepsOfTheStore, NextIInv DEF AInv, IInv

\* A step of the limiter or of the eviction changes none of the chain's state.
LEMMA LimiterStep ==
  ASSUME AInv, [Next]_vars, UNCHANGED accessVars, now' = now,
         \A r \in Calls : apc[r] # "limit" => lpc'[r] = lpc[r]
  PROVE  AInv'
<1> USE DEF AInv, accessVars, userVars, tokenVars, requestVars
<1>1. IInv' /\ LimiterTypeOK'
  BY StoreAInv
<1>2. AccessTypeOK'
  BY <1>1 DEF AccessTypeOK, TypeOK
<1>3. RequestsCarryTokens'
  BY DEF RequestsCarryTokens
<1>4. TokensTellTheTruth'
  BY DEF TokensTellTheTruth, Told, Signed, LastAdmin
<1>5. Histories'
  BY DEF Histories, Arrived, Active, User
<1> QED
  BY <1>1, <1>2, <1>3, <1>4, <1>5

LEMMA NextAInv == AInv /\ [Next]_vars => AInv'
<1> SUFFICES ASSUME AInv, [Next]_vars PROVE AInv'
  OBVIOUS
<1>0. IInv' /\ LimiterTypeOK'
  BY StoreAInv
<1> USE LimiterAssumption, AccessAssumption DEF AInv
<1>1. ASSUME NEW t \in AccessTokens, ReadUser(t) PROVE AInv'
  <2> DEFINE u == Holder[t]
  <2> USE <1>1 DEF ReadUser, userVars, requestVars, limiterVars, callVars
  <2>1. AccessTypeOK' /\ issue'[t].read = now /\ issue'[t].role = role[u] /\ issue'[t].user = u
    BY <1>0 DEF AccessTypeOK, TypeOK, Issues, LimiterTypeOK
  <2>2. RequestsCarryTokens' /\ Histories'
    BY DEF RequestsCarryTokens, Histories, Arrived, Active, User
  <2>3. \A s \in AccessTokens : s # t => issue'[s] = issue[s]
    BY DEF AccessTypeOK, TypeOK
  <2>4. claims[t] = None
    BY DEF TokensTellTheTruth, Signed
  <2>5. TokensTellTheTruth'
    BY <2>1, <2>3, <2>4 DEF TokensTellTheTruth, Told, Signed, LastAdmin, AccessTypeOK, TypeOK,
                            LimiterTypeOK
  <2> QED
    BY <1>0, <2>1, <2>2, <2>5
<1>s. ASSUME NEW t \in AccessTokens, Sign(t) PROVE AInv'
  <2> USE <1>s DEF Sign, userVars, requestVars, limiterVars, callVars
  <2>0. issue[t] \in Issues
    BY DEF AccessTypeOK, TypeOK
  <2>1. AccessTypeOK' /\ claims'[t].role = issue[t].role /\ claims'[t].user = issue[t].user
    BY <1>0, <2>0 DEF AccessTypeOK, TypeOK, Claims, Issues, LimiterTypeOK
  <2>2. \A r \in Calls : apc[r] # "idle" => claims'[token[r]] = claims[token[r]]
    BY DEF RequestsCarryTokens
  <2>3. RequestsCarryTokens'
    BY <2>2 DEF RequestsCarryTokens
  <2>4. \A s \in AccessTokens : s # t => claims'[s] = claims[s]
    BY DEF AccessTypeOK, TypeOK
  <2>5. TokensTellTheTruth'
    BY <2>1, <2>4 DEF TokensTellTheTruth, Told, Signed, LastAdmin
  <2>6. Histories'
    BY <2>2 DEF Histories, Arrived, Active, User
  <2> QED
    BY <1>0, <2>1, <2>3, <2>5, <2>6
<1>2. ASSUME NEW u \in Keys, NEW rl \in Roles, SetRole(u, rl) PROVE AInv'
  <2> USE <1>2 DEF SetRole, requestVars, tokenVars, limiterVars, callVars
  <2>1. AccessTypeOK'
    BY <1>0 DEF AccessTypeOK, TypeOK, LimiterTypeOK
  <2>2. RequestsCarryTokens' /\ Histories'
    BY DEF RequestsCarryTokens, Histories, Arrived, Active, User
  <2>3. TokensTellTheTruth'
    BY DEF TokensTellTheTruth, Told, Signed, LastAdmin, AccessTypeOK, TypeOK, LimiterTypeOK,
           Issues, Roles
  <2> QED
    BY <1>0, <2>1, <2>2, <2>3
<1>3. ASSUME NEW u \in Keys, NEW b \in BOOLEAN, SetActive(u, b) PROVE AInv'
  <2> USE <1>3 DEF SetActive, tokenVars, limiterVars, callVars
  <2>1. AccessTypeOK'
    BY <1>0 DEF AccessTypeOK, TypeOK
  <2>2. RequestsCarryTokens' /\ TokensTellTheTruth'
    BY DEF RequestsCarryTokens, TokensTellTheTruth, Told, Signed, LastAdmin
  <2>3. Histories'
    BY DEF Histories, Arrived, Active, User, AccessTypeOK, TypeOK
  <2> QED
    BY <1>0, <2>1, <2>2, <2>3
<1>4. ASSUME NEW r \in Calls, NEW t \in AccessTokens, Arrive(r, t) PROVE AInv'
  <2> USE <1>4 DEF Arrive, Goto, userVars, tokenVars, limiterVars, callVars
  <2>1. AccessTypeOK'
    <3>1. claims[t].user \in Keys /\ is_active[claims[t].user] \in BOOLEAN
      BY DEF AccessTypeOK, TypeOK, Claims
    <3>2. (LastAdmin(claims[t].user) > now - (TokenLife + Issuing(t))) \in BOOLEAN
      OBVIOUS
    <3> QED
      BY <1>0, <3>1, <3>2 DEF AccessTypeOK, TypeOK
  <2>2. RequestsCarryTokens' /\ TokensTellTheTruth'
    BY DEF RequestsCarryTokens, TokensTellTheTruth, Told, Signed, LastAdmin, AccessTypeOK, TypeOK
  <2>3. claims[t].role = "admin" => LastAdmin(claims[t].user) > now - (TokenLife + Issuing(t))
    <3> SUFFICES ASSUME claims[t].role = "admin"
                 PROVE  LastAdmin(claims[t].user) > now - (TokenLife + Issuing(t))
      OBVIOUS
    <3>1. claims[t] \in Claims /\ issue[t] \in Issues /\ claims[t].user = issue[t].user
      BY DEF TokensTellTheTruth, Signed, AccessTypeOK, TypeOK
    <3>2. claims[t].iat \in Int /\ issue[t].read \in Int /\ now \in Int /\ TokenLife \in Int
      BY <3>1 DEF Claims, Issues, AccessTypeOK, TypeOK, LimiterTypeOK
    <3>3. LastAdmin(claims[t].user) \in Int
      BY <3>1, <3>2 DEF Claims, LastAdmin, AccessTypeOK, TypeOK
    <3>4. LastAdmin(claims[t].user) >= issue[t].read
      BY <3>1 DEF TokensTellTheTruth, Told, Signed
    <3>5. now < claims[t].iat + TokenLife
      BY DEF Verifies
    <3> QED
      BY <3>2, <3>3, <3>4, <3>5 DEF Issuing
  <2>4. Histories'
    BY <2>3 DEF Histories, Arrived, Active, User, AccessTypeOK, TypeOK
  <2> QED
    BY <1>0, <2>1, <2>2, <2>4
<1>5. ASSUME NEW r \in Calls, LookUpUser(r) PROVE AInv'
  <2> USE <1>5 DEF LookUpUser, Goto, Forget, userVars, tokenVars, limiterVars, callVars
  <2>1. AccessTypeOK'
    BY <1>0 DEF AccessTypeOK, TypeOK
  <2>2. RequestsCarryTokens' /\ TokensTellTheTruth'
    BY DEF RequestsCarryTokens, TokensTellTheTruth, Told, Signed, LastAdmin, AccessTypeOK, TypeOK
  <2>3. Histories'
    BY DEF Histories, Arrived, Active, User, Authenticated, AccessTypeOK, TypeOK
  <2> QED
    BY <1>0, <2>1, <2>2, <2>3
<1>6. ASSUME NEW r \in Calls, RateLimit(r) PROVE AInv'
  <2>1. now' = now /\ UNCHANGED accessVars
    BY <1>6 DEF RateLimit, Limit, Load, LoadOrStore, Allow
  <2>2. \A q \in Calls : q # r => lpc'[q] = lpc[q]
    BY <1>6 DEF RateLimit, Limit, Load, LoadOrStore, Allow, Get, LGoto, AccessTypeOK, TypeOK, LimiterTypeOK
  <2> QED
    BY <1>6, <2>1, <2>2, LimiterStep DEF RateLimit
<1>7. CASE Evictor /\ UNCHANGED accessVars
  BY <1>7, LimiterStep DEF Evictor, Look, Evict, callVars
<1>8. CASE Tick /\ UNCHANGED accessVars
  <2> USE <1>8 DEF Tick, accessVars, userVars, tokenVars, requestVars, callVars
  <2>1. AccessTypeOK'
    BY <1>0 DEF AccessTypeOK, TypeOK, LimiterTypeOK
  <2>2. RequestsCarryTokens' /\ Histories'
    BY DEF RequestsCarryTokens, Histories, Arrived, Active, User
  <2>3. TokensTellTheTruth'
    BY DEF TokensTellTheTruth, Told, Signed, LastAdmin, AccessTypeOK, TypeOK, LimiterTypeOK,
           Issues
  <2> QED
    BY <1>0, <2>1, <2>2, <2>3
<1>9. CASE UNCHANGED vars
  BY <1>9, LimiterStep DEF vars, limiterVars, callVars
<1> QED
  BY <1>1, <1>s, <1>2, <1>3, <1>4, <1>5, <1>6, <1>7, <1>8, <1>9, NextCases

LEMMA SpecAInv == Spec => []AInv
  BY InitAInv, NextAInv, PTL DEF Spec

-----------------------------------------------------------------------------
\* The chain's type invariant.
THEOREM AccessTypes == Spec => []TypeOK
<1>1. AInv => TypeOK
  BY DEF AInv, AccessTypeOK
<1> QED
  BY <1>1, SpecAInv, PTL

\* The role in a request's context is never older than a token lives and its
\* issuing took: whoever gets past RequireRole("admin") was an admin that short
\* a time before, although the row was read before the time was taken.
THEOREM WritersAdmins == Spec => []WritersWereAdmins
<1>1. AInv => WritersWereAdmins
  BY DEF AInv, Histories, Arrived, RequestsCarryTokens, WritersWereAdmins, MayWrite
<1> QED
  BY <1>1, SpecAInv, PTL

\* No request of an account that is disabled when it comes and stays so gets
\* past JWTAuth, whatever tokens the account holds.
THEOREM DisabledOut == Spec => []DisabledShutOut
<1>1. AInv => DisabledShutOut
  BY DEF AInv, Histories, Active, DisabledShutOut
<1> QED
  BY <1>1, SpecAInv, PTL

\* The chain uses the store as RateLimit says it is used.
THEOREM UsesTheStore == Spec => LimiterSpec
<1>1. Init => LimiterInit
  BY DEF Init
<1>2. AInv /\ [Next]_vars => [LimiterNext]_limiterVars
  BY StepsOfTheStore
<1> QED
  BY <1>1, <1>2, SpecAInv, PTL DEF Spec, LimiterSpec

\* So the API lets no user through faster than a bucket of 120 would.
THEOREM ChainWithinTwice == Spec => []WithinTwiceTheBurst
  BY UsesTheStore, WithinTwice, PTL

-----------------------------------------------------------------------------
\* The store knows a request by the user of its token.
KeysAreUsers == \A r \in Calls : lpc[r] # "idle" => key[r] = User(r)

\* A request at the limiter keeps its token, and a token what it says.
LEMMA UsersStay ==
  ASSUME AInv, [Next]_vars, NEW r \in Calls, apc[r] = "limit" PROVE User(r)' = User(r)
<1>1. token[r] \in AccessTokens /\ claims[token[r]] # None
  BY DEF AInv, RequestsCarryTokens
<1>2. CASE \/ \E t \in AccessTokens : ReadUser(t)
           \/ \E t \in AccessTokens : Sign(t)
  BY <1>1, <1>2 DEF ReadUser, Sign, requestVars, User, AInv, AccessTypeOK, TypeOK
<1>3. CASE \/ \E u \in Keys, rl \in Roles : SetRole(u, rl)
           \/ \E u \in Keys, b \in BOOLEAN : SetActive(u, b)
  BY <1>3 DEF SetRole, SetActive, requestVars, tokenVars, User
<1>4. CASE \E q \in Calls, t \in AccessTokens : Arrive(q, t)
  BY <1>4 DEF Arrive, tokenVars, User, AInv, AccessTypeOK, TypeOK
<1>5. CASE \E q \in Calls : LookUpUser(q)
  BY <1>5 DEF LookUpUser, Forget, tokenVars, User, AInv, AccessTypeOK, TypeOK
<1>6. CASE UNCHANGED accessVars
  BY <1>6 DEF accessVars, tokenVars, requestVars, User
<1> QED
  BY <1>2, <1>3, <1>4, <1>5, <1>6, NextCases DEF RateLimit, vars

\* A request gets its key when it comes to the limiter.
LEMMA KeysGiven ==
  ASSUME AInv, [Next]_vars, NEW r \in Calls, lpc'[r] # "idle"
  PROVE  /\ apc[r] = "limit"
         /\ IF lpc[r] = "idle" THEN key'[r] = User(r) ELSE key'[r] = key[r]
<1>1. CASE UNCHANGED limiterVars
  BY <1>1 DEF limiterVars, callVars, AInv, RequestsCarryTokens
<1>2. ASSUME NEW q \in Calls, RateLimit(q)
      PROVE  /\ apc[r] = "limit"
             /\ IF lpc[r] = "idle" THEN key'[r] = User(r) ELSE key'[r] = key[r]
  BY <1>2 DEF RateLimit, Limit, Load, LoadOrStore, Allow, Get, LGoto, LimiterKey, User,
              AInv, RequestsCarryTokens, AccessTypeOK, TypeOK, LimiterTypeOK
<1>3. CASE Evictor \/ Tick
  BY <1>3 DEF Evictor, Look, Evict, Tick, callVars, AInv, RequestsCarryTokens
<1> QED
  BY <1>1, <1>2, <1>3, NextCases DEF ReadUser, Sign, SetRole, SetActive, Arrive, LookUpUser, vars

LEMMA KeysAreUsersStep == AInv /\ KeysAreUsers /\ [Next]_vars => KeysAreUsers'
<1> SUFFICES ASSUME AInv, KeysAreUsers, [Next]_vars, NEW r \in Calls, lpc'[r] # "idle"
             PROVE  key'[r] = User(r)'
  BY DEF KeysAreUsers
<1> QED
  BY KeysGiven, UsersStay DEF KeysAreUsers

LEMMA TInvThrottled == TInv /\ AInv /\ KeysAreUsers => ThrottledByOwnRequests
<1> SUFFICES ASSUME TInv, AInv, KeysAreUsers, NEW r \in Calls, lpc[r] = "refused"
             PROVE  Cardinality({q \in Calls : /\ lpc[q] = "admitted"
                                               /\ User(q) = User(r)
                                               /\ at[q] > at[r] - Burst}) >= Burst
  BY DEF ThrottledByOwnRequests
<1>1. \A q \in Calls : at[q] \in Nat
  BY DEF AInv, AccessTypeOK, TypeOK, LimiterTypeOK
<1>2. \A q \in Calls : at[q] > at[r] - Burst <=> at[q] >= at[r] - Burst + 1
  BY <1>1, LimiterAssumption
<1>3. \A q \in Calls : lpc[q] = "admitted" => User(q) = key[q]
  BY DEF KeysAreUsers
<1>4. User(r) = key[r]
  BY DEF KeysAreUsers
<1>5. {q \in Calls : lpc[q] = "admitted" /\ User(q) = User(r) /\ at[q] > at[r] - Burst}
        = Admitted(key[r], at[r] - Burst + 1)
  BY <1>2, <1>3, <1>4 DEF Admitted
<1> QED
  BY <1>5 DEF TInv, RefusedForItsOwn

\* Whoever is refused was let in a whole burst of times in the ticks before: no
\* other user's requests, and none without a valid token, use up the budget.
THEOREM ThrottledByOwn == Spec => []ThrottledByOwnRequests
<1>1. Init => KeysAreUsers
  BY DEF Init, LimiterInit, KeysAreUsers
<1>2. AInv /\ TInv /\ [Next]_vars => TInv'
  BY StepsOfTheStore, NextTInv DEF AInv
<1>3. Init => TInv
  BY InitTInv DEF Init
<1> QED
  BY <1>1, <1>2, <1>3, SpecAInv, KeysAreUsersStep, TInvThrottled, PTL DEF Spec
=============================================================================

----------------------------- MODULE RateLimit -----------------------------
(***************************************************************************)
(* A limiterStore: a sync.Map of token buckets, one per client, and the    *)
(* goroutine that evicts the buckets of clients that have been idle.  A    *)
(* middleware gets the client's bucket and asks it to Allow the request;   *)
(* these are separate steps, and the eviction may come between them.       *)
(* lastSeen is stored in the step that gets the bucket: an eviction that   *)
(* looks in between might have looked before.                              *)
(*                                                                         *)
(* A tick is the time in which a bucket regains one token, 6 s for the     *)
(* routes under /auth and 1 s under /api.  A call passes getLimiter and    *)
(* Allow within a tick; the evicting goroutine may take as long as it      *)
(* likes.  A bucket is named by the call that made it.  The actions leave  *)
(* out UNCHANGED for what a module that extends this one adds.             *)
(***************************************************************************)
EXTENDS Integers, FiniteSets

CONSTANTS Calls,    \* requests that are counted, each once
          Keys,     \* clients: user ids for the API, else IP addresses
          Burst,    \* b, 10 and 60 in the code
          Idle,     \* ticks after which a bucket is evicted, 50 and 300
          MaxTime,  \* bound on the ticks of a behaviour
          None      \* no bucket, no key

ASSUME LimiterAssumption == /\ Burst \in Nat \ {0}
                            /\ Idle \in Nat /\ Idle + 1 >= 2 * Burst
                            /\ MaxTime \in Nat
                            /\ None \notin Calls \cup Keys

VARIABLES now,
          limiters,  \* the map: key -> bucket
          tokens,    \* what a bucket holds; one that is not made yet is full
          lastSeen,  \* when it was last asked for
          lpc,       \* where a call stands
          key,       \* its client
          limiter,   \* the bucket it has got
          at,        \* (history) when it was admitted or refused
          doomed,    \* the key the eviction has found idle and will delete
          ideal      \* (history) one bucket per client, twice as large

callVars == <<lpc, key, limiter, at>>
limiterVars == <<now, limiters, tokens, lastSeen, callVars, doomed, ideal>>

InFlight == {"store", "allow"}

Least(a, b) == IF a <= b THEN a ELSE b

LimiterInit == /\ now = 0
               /\ limiters = [k \in Keys |-> None]
               /\ tokens = [c \in Calls |-> Burst]
               /\ lastSeen = [c \in Calls |-> 0]
               /\ lpc = [c \in Calls |-> "idle"]
               /\ key = [c \in Calls |-> None]
               /\ limiter = [c \in Calls |-> None]
               /\ at = [c \in Calls |-> 0]
               /\ doomed = None
               /\ ideal = [k \in Keys |-> 2 * Burst]

LGoto(c, p) == lpc' = [lpc EXCEPT ![c] = p]

-----------------------------------------------------------------------------
(* getLimiter, and Allow.                                                  *)

\* lastSeen.Store(now), and the bucket is returned.
Get(c, l) == /\ limiter' = [limiter EXCEPT ![c] = l]
             /\ lastSeen' = [lastSeen EXCEPT ![l] = now]
             /\ LGoto(c, "allow")

\* Load: the bucket is there, or the call makes one.
Load(c, k) ==
  /\ lpc[c] = "idle"
  /\ key' = [key EXCEPT ![c] = k]
  /\ IF limiters[k] = None
       THEN LGoto(c, "store") /\ UNCHANGED <<lastSeen, limiter>>
       ELSE Get(c, limiters[k])
  /\ UNCHANGED <<now, limiters, tokens, at, doomed, ideal>>

\* Mutant of LoadOrStore: Store, the call keeps its own bucket.
StoreOwn(c) ==
  /\ lpc[c] = "store"
  /\ limiters' = [limiters EXCEPT ![key[c]] = c]
  /\ Get(c, c)
  /\ UNCHANGED <<now, tokens, key, at, doomed, ideal>>

\* LoadOrStore: another call may have stored one meanwhile, which is used then.
LoadOrStore(c) ==
  LET k == key[c] IN
  /\ lpc[c] = "store"
  /\ IF limiters[k] = None
       THEN limiters' = [limiters EXCEPT ![k] = c] /\ Get(c, c)
       ELSE Get(c, limiters[k]) /\ UNCHANGED limiters
  /\ UNCHANGED <<now, tokens, key, at, doomed, ideal>>

\* rate.Limiter.Allow is atomic; without a token the answer is 429.
Allow(c) ==
  LET l == limiter[c] IN
  /\ lpc[c] = "allow"
  /\ IF tokens[l] > 0
       THEN /\ tokens' = [tokens EXCEPT ![l] = @ - 1]
            /\ ideal' = [ideal EXCEPT ![key[c]] = @ - 1]
            /\ LGoto(c, "admitted")
       ELSE /\ LGoto(c, "refused")
            /\ UNCHANGED <<tokens, ideal>>
  /\ limiter' = [limiter EXCEPT ![c] = None]
  /\ at' = [at EXCEPT ![c] = now]
  /\ UNCHANGED <<now, limiters, lastSeen, key, doomed>>

Limit(c) == LoadOrStore(c) \/ Allow(c)

-----------------------------------------------------------------------------
(* The evicting goroutine, and time.                                       *)

\* now.Sub(lastSeen) > 5*time.Minute
IsIdle(l) == now - lastSeen[l] > Idle

\* Range visits a key whose bucket is idle.  Its now was read when the sweep
\* began; an older one finds fewer buckets idle, as if they were not visited.
Look(k) == /\ doomed = None
           /\ limiters[k] # None /\ IsIdle(limiters[k])
           /\ doomed' = k
           /\ UNCHANGED <<now, limiters, tokens, lastSeen, callVars, ideal>>

\* Delete(k), also when a call has asked for the bucket since it was looked at.
Evict == /\ doomed # None
         /\ limiters' = [limiters EXCEPT ![doomed] = None]
         /\ doomed' = None
         /\ UNCHANGED <<now, tokens, lastSeen, callVars, ideal>>

Evictor == (\E k \in Keys : Look(k)) \/ Evict

\* Mutant of Refilled: the bucket has no capacity.
RefilledForever(n) == n + 1

\* A bucket regains a token, up to its capacity.
Refilled(n) == Least(Burst, n + 1)

Tick == /\ now < MaxTime
        /\ \A c \in Calls : lpc[c] \notin InFlight
        /\ now' = now + 1
        /\ tokens' = [c \in Calls |-> Refilled(tokens[c])]
        /\ ideal' = [k \in Keys |-> Least(2 * Burst, ideal[k] + 1)]
        /\ UNCHANGED <<limiters, lastSeen, callVars, doomed>>

LimiterNext == \/ \E c \in Calls : Limit(c) \/ \E k \in Keys : Load(c, k)
               \/ Evictor
               \/ Tick

LimiterSpec == LimiterInit /\ [][LimiterNext]_limiterVars

-----------------------------------------------------------------------------
(* Properties.                                                             *)

\* Every variable of the store has its type.
LimiterTypeOK ==
  /\ now \in 0..MaxTime
  /\ limiters \in [Keys -> Calls \cup {None}]
  /\ tokens \in [Calls -> 0..Burst]
  /\ lastSeen \in [Calls -> Nat]
  /\ lpc \in [Calls -> {"idle", "admitted", "refused"} \cup InFlight]
  /\ key \in [Calls -> Keys \cup {None}]
  /\ limiter \in [Calls -> Calls \cup {None}]
  /\ at \in [Calls -> Nat]
  /\ doomed \in Keys \cup {None}
  /\ ideal \in [Keys -> Int]

\* What evictions can give away is bounded.  A call that holds an evicted
\* bucket and the next one, which makes a full one, may both be admitted; still
\* no client is ever let through faster than one bucket of twice the size
\* would let it, so within t ticks at most 2 * Burst + t times.
WithinTwiceTheBurst == \A k \in Keys : ideal[k] >= 0
=============================================================================

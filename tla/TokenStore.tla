----------------------------- MODULE TokenStore -----------------------------
(***************************************************************************)
(* What a user of the session API may rely on, without tables, statements  *)
(* or transactions: tokens are let in while they live, never live again,   *)
(* and a new one ends the sessions that were known before it was asked     *)
(* for.  Two requests that overlap may both leave a token alive.           *)
(*                                                                         *)
(* As in Sessions, a token is named by the request that is given it.       *)
(***************************************************************************)
CONSTANTS Requests,  \* refreshes, logouts and logins
          Users,
          NoOwner    \* the owner of a token that does not exist yet

VARIABLES owner,     \* the user a token was issued to
          dead,      \* tokens that were consumed, superseded or have expired
          known,     \* the tokens handed out before a request began
          accepted,  \* the token, if any, a request was let in with
          answered   \* the requests answered with success

vars == <<owner, dead, known, accepted, answered>>

Issued == {t \in Requests : owner[t] # NoOwner}

Init == /\ owner = [t \in Requests |-> NoOwner]
        /\ dead = {}
        /\ known = [r \in Requests |-> {}]
        /\ accepted = [r \in Requests |-> {}]
        /\ answered = {}

Begin(r) == /\ accepted[r] = {} /\ r \notin answered
            /\ known' = [known EXCEPT ![r] = answered \cap Issued]
            /\ UNCHANGED <<owner, dead, accepted, answered>>

\* A request is let in with a token that lives.
Accept(r, t) == /\ accepted[r] = {}
                /\ t \in Issued \ dead
                /\ accepted' = [accepted EXCEPT ![r] = {t}]
                /\ UNCHANGED <<owner, dead, known, answered>>

\* Tokens may die at any time, and stay dead.
End == /\ dead \subseteq dead' /\ dead' \subseteq Issued
       /\ UNCHANGED <<owner, known, accepted, answered>>

\* A request that is answered has used up the token it was let in with.
Answer(r) == /\ r \notin answered
             /\ answered' = answered \cup {r}
             /\ dead \cup accepted[r] \subseteq dead' /\ dead' \subseteq Issued
             /\ UNCHANGED <<owner, known, accepted>>

\* A new token lives, the one it was exchanged for does not, nor does any the
\* user had been handed before; other users' tokens are not touched.  The
\* answer may be lost.
Issue(r, g) == /\ r \notin Issued
               /\ owner' = [owner EXCEPT ![r] = g]
               /\ dead \cup accepted[r] \cup {t \in known[r] : owner[t] = g} \subseteq dead'
               /\ \A t \in dead' \ dead : owner[t] = g
               /\ r \notin dead'
               /\ answered' \in {answered, answered \cup {r}}
               /\ UNCHANGED <<known, accepted>>

Next == \/ \E r \in Requests : \/ Begin(r)
                               \/ \E t \in Requests : Accept(r, t)
                               \/ Answer(r)
                               \/ \E g \in Users : Issue(r, g)
        \/ End

Spec == Init /\ [][Next]_vars
=============================================================================

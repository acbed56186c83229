---------------------------- MODULE LoginTickets ----------------------------
(***************************************************************************)
(* What a login flow promises, without instances, stores, state strings or *)
(* a purge.  GET /auth/github opens a ticket.  A callback that gets hold   *)
(* of it uses it up for good, and is let in only in time and only if it    *)
(* shows the verifier that the ticket was opened for; only who was let in  *)
(* is answered with tokens.  Tickets may be lost, and so may answers.      *)
(***************************************************************************)
CONSTANTS Flows,      \* GET /auth/github requests, which name their tickets
          Callbacks,  \* GET /auth/github/callback requests
          Verifiers,
          None        \* no ticket, challenge or verifier

VARIABLES opened,     \* tickets that were opened
          open,       \* tickets that can still be used
          lapsed,     \* tickets past their time
          challenge,  \* the verifier a ticket asks for, if any
          ticket,     \* the ticket a callback has used, if any
          shown,      \* the verifier it showed
          letIn,      \* callbacks that may be answered with tokens
          answered    \* callbacks that were

vars == <<opened, open, lapsed, challenge, ticket, shown, letIn, answered>>

Init == /\ opened = {} /\ open = {} /\ lapsed = {}
        /\ challenge = [f \in Flows |-> None]
        /\ ticket = [c \in Callbacks |-> None]
        /\ shown = [c \in Callbacks |-> None]
        /\ letIn = {} /\ answered = {}

\* A new ticket takes the place of one other at most.
Open(f, ch) == /\ f \notin opened
               /\ opened' = opened \cup {f}
               /\ \E g \in Flows : open' = (open \ {g}) \cup {f}
               /\ challenge' = [challenge EXCEPT ![f] = ch]
               /\ UNCHANGED <<lapsed, ticket, shown, letIn, answered>>

Lapse(f) == /\ f \in opened
            /\ lapsed' = lapsed \cup {f}
            /\ UNCHANGED <<opened, open, challenge, ticket, shown, letIn, answered>>

Use(c, f, v) == /\ f \in open /\ ticket[c] = None
                /\ open' = open \ {f}
                /\ ticket' = [ticket EXCEPT ![c] = f]
                /\ shown' = [shown EXCEPT ![c] = v]
                /\ letIn' = letIn \cup {d \in {c} : f \notin lapsed /\ challenge[f] \in {None, v}}
                /\ UNCHANGED <<opened, lapsed, challenge, answered>>

Answer(c) == /\ c \in letIn
             /\ letIn' = letIn \ {c}
             /\ answered' = answered \cup {c}
             /\ UNCHANGED <<opened, open, lapsed, challenge, ticket, shown>>

\* The purge, a restart, or a callback that fails or whose answer is lost.
Lose == /\ open' \subseteq open /\ letIn' \subseteq letIn
        /\ UNCHANGED <<opened, lapsed, challenge, ticket, shown, answered>>

Next == \/ \E f \in Flows : Lapse(f) \/ \E ch \in Verifiers \cup {None} : Open(f, ch)
        \/ \E c \in Callbacks : \/ \E f \in Flows, v \in Verifiers \cup {None} : Use(c, f, v)
                                \/ Answer(c)
        \/ Lose

Spec == Init /\ [][Next]_vars

\* Whoever is answered with tokens, or may yet be, has used a ticket of their own
\* and has shown the verifier it asks for.
TokensForTheVerifier ==
  \A c \in letIn \cup answered :
    /\ ticket[c] \in opened /\ challenge[ticket[c]] \in {None, shown[c]}
    /\ \A d \in Callbacks : ticket[d] = ticket[c] => d = c
=============================================================================

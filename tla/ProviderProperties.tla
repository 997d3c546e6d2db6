------------------------- MODULE ProviderProperties -------------------------
(***************************************************************************)
(* What a provider guarantees on the in-memory backend: one of any number  *)
(* of providers, with their reservation timers, any number of slots and    *)
(* any users.                                                              *)
(***************************************************************************)
EXTENDS InMemoryProperties, Provider

CONSTANT provider   \* the one we look at

\* All routines are providers or their timers.  Clients bring this provider
\* online with its own input; what they call and send is one of the messages
\* of provider.go, on behalf of anybody.  No timer has the id of a provider,
\* and Nil, which stands for a slot that is missing in a map, is no user.
ASSUME ProviderAssumption ==
  /\ provider \in Ids
  /\ Nil \notin Users
  /\ \A i \in Ids, l \in Slots : TimerId[i][l] # provider
  /\ Keys = ProviderKeys /\ Registered = ProviderKeys /\ Recovery = ProviderRecovery
  /\ Messages \subseteq SlotRequest \cup {GoOffline}
  /\ \A i \in Ids, k \in Keys, x \in Inputs, m \in Msg, t \in Time :
       Runner(i, k, x, m, t) = ProviderRunner(i, k, x, m)
  /\ \A c \in Clients, n \in 1..MaxOps : \A o \in Script(c, n) :
       o.op = "go" /\ o.id = provider => o.key = "Init" /\ o.arg \in ProviderInput

\* The state the provider's next handler gets (it has returned at least once).
Waiting(i) == pc[i] \in {"effects", "poll", "pollCall", "pollSend", "default", "block"}
Known      == pc[provider] # "absent" /\ ~ (pc[provider] = "run" /\ cur[provider].key = "Init")
State      == IF Waiting(provider) /\ ~out[provider].done
              THEN out[provider].cases[1].input ELSE cur[provider].input

\* The last thing the client did is a call that the provider has answered so.
Told(c, answer) ==
  /\ ops[c] > 0 /\ cop[c].op = "call" /\ cop[c].id = provider
  /\ cpc[c] = "idle" /\ got[c] = [ok |-> TRUE, value |-> answer]

\* The expiry of a reservation of that slot for that user has been handed to the provider.
ExpiryHandled(m) == \E p \in DOMAIN handled[provider] : handled[provider][p].msg = m

\* Whoever was told that a booking is confirmed stays booked, whatever stale
\* expiries arrive afterwards.
ConfirmedStaysBooked ==
  \A c \in Clients : Told(c, "confirmed") =>
    State.booked[cop[c].arg.slot] = cop[c].arg.user

\* A slot is never reserved by one user and booked by another.
ReservedOrBooked ==
  Known => \A l \in Slots : State.reserved[l] = Nil \/ State.booked[l] = Nil

\* Whoever was told that a slot is reserved holds it, reserved or booked,
\* until an expiry of that reservation is handled.
ReservationIsHeld ==
  \A c \in Clients : Told(c, "reserved") =>
    LET m == cop[c].arg IN
      \/ State.reserved[m.slot] = m.user \/ State.booked[m.slot] = m.user
      \/ ExpiryHandled(m)

\* Every expiry the timer sends is handled, unless the provider has gone offline.
ExpiryIsHandled ==
  accepted[provider] > Len(handled[provider]) ~>
    (accepted[provider] = Len(handled[provider]) \/ pc[provider] = "done")

=============================================================================

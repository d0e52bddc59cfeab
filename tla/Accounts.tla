------------------------------- MODULE Accounts -------------------------------
(***************************************************************************)
(* What the service promises about the account of an e-mail address,       *)
(* without requests, awaits, tokens of two kinds or failures.              *)
(*                                                                         *)
(* An address is unknown, registered or verified, in this order.  Letters  *)
(* go to registered addresses; whoever holds a letter may redeem it.  A    *)
(* redeemed letter lets its addressee be verified, or the password of the  *)
(* addressee change, as the letter says.  Sessions are opened for verified *)
(* addresses and may end at any time.                                      *)
(***************************************************************************)
EXTENDS Naturals

CONSTANTS
    Addresses,      \* the e-mail addresses
    Letters,        \* the letters that may be sent
    Tokens,         \* the sessions' tokens
    Nobody          \* the holder of a token that opens nothing

VARIABLES
    stage,          \* what is known of each address
    password,       \* how often the password of an address was changed
    sent,           \* the letters sent: number, addressee, purpose
    redeemed,       \* the numbers of the letters that were redeemed
    holder          \* the address for which a token is live, or Nobody

vars == <<stage, password, sent, redeemed, holder>>

Purposes == {"email-verification", "password-reset"}
Mail     == [link : Letters, email : Addresses, name : Purposes]

Init ==
    /\ stage = [a \in Addresses |-> "unknown"]
    /\ password = [a \in Addresses |-> 0]
    /\ sent = {}
    /\ redeemed = {}
    /\ holder = [t \in Tokens |-> Nobody]

\* Somebody redeemed a letter of this purpose that was sent to the address.
Entitled(a, purpose) ==
    \E m \in sent : m.email = a /\ m.name = purpose /\ m.link \in redeemed

SignUp(a) ==
    /\ stage[a] = "unknown"
    /\ stage' = [stage EXCEPT ![a] = "registered"]
    /\ UNCHANGED <<password, sent, redeemed, holder>>

\* No two letters share a number, and nobody is sent a second verification.
Post(m) ==
    /\ stage[m.email] # "unknown"
    /\ \A n \in sent : /\ n.link # m.link
                       /\ n.email = m.email /\ n.name = m.name
                             => m.name = "password-reset"
    /\ sent' = sent \cup {m}
    /\ UNCHANGED <<stage, password, redeemed, holder>>

Redeem(m) ==
    /\ m \in sent
    /\ redeemed' = redeemed \cup {m.link}
    /\ UNCHANGED <<stage, password, sent, holder>>

Verify(a) ==
    /\ Entitled(a, "email-verification")
    /\ stage' = [stage EXCEPT ![a] = "verified"]
    /\ UNCHANGED <<password, sent, redeemed, holder>>

ChangePassword(a) ==
    /\ Entitled(a, "password-reset")
    /\ password' = [password EXCEPT ![a] = @ + 1]
    /\ UNCHANGED <<stage, sent, redeemed, holder>>

Open(t, a) ==
    /\ stage[a] = "verified"
    /\ holder[t] = Nobody
    /\ holder' = [holder EXCEPT ![t] = a]
    /\ UNCHANGED <<stage, password, sent, redeemed>>

\* Sessions end for one address at a time.
End(S, a) ==
    /\ \A t \in S : holder[t] = a
    /\ holder' = [t \in Tokens |-> IF t \in S THEN Nobody ELSE holder[t]]
    /\ UNCHANGED <<stage, password, sent, redeemed>>

Next ==
    \/ \E a \in Addresses : SignUp(a) \/ Verify(a) \/ ChangePassword(a)
    \/ \E m \in Mail : Post(m) \/ Redeem(m)
    \/ \E t \in Tokens, a \in Addresses : Open(t, a)
    \/ \E S \in SUBSET Tokens, a \in Addresses : End(S, a)

Spec == Init /\ [][Next]_vars

=============================================================================

------------------------------- MODULE TokenTtl -------------------------------
(***************************************************************************)
(* What JWT_REFRESH_TTL means to the two places that read it: ttlToMs of   *)
(* token.service.ts, which dates the row, and the library jsonwebtoken,    *)
(* which dates the signed token.  Times are in seconds, as in a JWT.       *)
(*                                                                         *)
(* A setting is a whole number, a unit, and whether it is spelled tersely: *)
(* digits and a single lower-case letter, nothing between them.  "7 days", *)
(* "7 d" and "7D" are not terse; "3600" has no unit and counts             *)
(* milliseconds.  A setting that the library cannot read makes every       *)
(* signature fail, and there is no token whose lifetime could be asked.    *)
(***************************************************************************)
EXTENDS Naturals

Units == {"none", "ms", "s", "m", "h", "d", "w", "y"}

Ttls == [n : Nat, unit : Units, terse : BOOLEAN]

-----------------------------------------------------------------------------
Multiplier == [s |-> 1, m |-> 60, h |-> 3600, d |-> 86400]

\* The regular expression of ttlToMs.
Parsed(ttl) == ttl.unit \in {"s", "m", "h", "d"} /\ ttl.terse

SevenDays == 7 * 24 * 60 * 60

TtlToMs(ttl) == IF Parsed(ttl) THEN ttl.n * Multiplier[ttl.unit] ELSE SevenDays

-----------------------------------------------------------------------------
\* expiresIn of jsonwebtoken, whose exp is rounded down to a second.
Timespan(ttl) ==
    CASE ttl.unit \in {"none", "ms"} -> ttl.n \div 1000
      [] ttl.unit = "s" -> ttl.n
      [] ttl.unit = "m" -> ttl.n * 60
      [] ttl.unit = "h" -> ttl.n * 3600
      [] ttl.unit = "d" -> ttl.n * 86400
      [] ttl.unit = "w" -> ttl.n * 604800
      [] ttl.unit = "y" -> ttl.n * 31557600

=============================================================================

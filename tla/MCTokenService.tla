---------------------------- MODULE MCTokenService ----------------------------
(* Instances of TokenService for TLC.                                      *)
EXTENDS TokenService, TLC

OneSecond == [n |-> 1, unit |-> "s", terse |-> TRUE]

\* Every setting that ttlToMs reads means the same to jsonwebtoken; of the
\* others, some outlast the seven days of the fallback and some do not.
SomeTtls == [n : 0..40, unit : Units, terse : BOOLEAN]

ASSUME SameLifetime ==
    \A ttl \in SomeTtls : Parsed(ttl) => TtlToMs(ttl) = Timespan(ttl)
ASSUME SomeOutlastTheFallback ==
    \E ttl \in SomeTtls : Timespan(ttl) > TtlToMs(ttl)
ASSUME OnlyTheFallbackIsShort ==
    \A ttl \in SomeTtls : Timespan(ttl) > TtlToMs(ttl) => TtlToMs(ttl) = SevenDays

\* Requests, users and tokens are interchangeable; no run that uses this
\* checks a liveness property.
Symmetry == Permutations(Callers) \cup Permutations(Users) \cup Permutations(Jtis)

=============================================================================

----------------------------- MODULE RateLimiter -----------------------------
(***************************************************************************)
(* The three limiters of rateLimiter.ts.  Each has a limit of its own and  *)
(* a RedisStore with the default prefix, so all of them count under the    *)
(* one key rl:<ip>, which lives for one window from its first increment.   *)
(***************************************************************************)
EXTENDS Integers

CONSTANTS Clients,    \* IP addresses
          Limit,      \* group of routes -> requests per window
          WindowMs    \* env.rateLimitWindowMs

Groups == {"global", "auth", "login"}

ASSUME LimitAssumption ==
  /\ Limit \in [Groups -> Nat]
  /\ WindowMs \in Nat \ {0}

VARIABLE counter      \* client -> hits, and when the key goes

Counter == [hits : Nat, until : Nat]
NoHits == [c \in Clients |-> [hits |-> 0, until |-> 0]]

\* What INCR, and PEXPIRE of a new key, make of a client's counter.
Counted(c, ms) ==
  IF counter[c].until > ms
    THEN [counter[c] EXCEPT !.hits = @ + 1]
    ELSE [hits |-> 1, until |-> ms + WindowMs]

\* Mutant: the counter is compared before it is incremented.
OverByOne(group, hits) == hits - 1 > Limit[group]

Over(group, hits) == hits > Limit[group]
=============================================================================

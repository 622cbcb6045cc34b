---------------------------- MODULE AccessTokens ----------------------------
(***************************************************************************)
(* AuthService: JSON web tokens on a clock of milliseconds.  jsonwebtoken  *)
(* floors the clock to whole seconds when it signs and when it verifies,   *)
(* and the payload is the user and the second, nothing else: tokens of one *)
(* user and one second are equal.                                          *)
(***************************************************************************)
EXTENDS Integers

CONSTANTS Users,
          Lifetime   \* env.accessTokenExpiresInSeconds

ASSUME LifetimeAssumption == Lifetime \in Nat

Token == [sub : Users, iat : Nat]

Second(ms) == ms \div 1000

Sign(user, ms) == [sub |-> user, iat |-> Second(ms)]

Exp(token) == token.iat + Lifetime

\* Mutant: a token is good for its last second too.
ExpiredLate(token, ms) == Second(ms) > Exp(token)

Expired(token, ms) == Second(ms) >= Exp(token)

\* Mutant: Math.round instead of Math.floor.
ExpiresInRounded(token, ms) ==
  IF Exp(token) > Second(ms + 500) THEN Exp(token) - Second(ms + 500) ELSE 0

TokenExpiresIn(token, ms) ==
  IF Exp(token) > Second(ms) THEN Exp(token) - Second(ms) ELSE 0
=============================================================================

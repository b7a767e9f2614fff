--------------------------- MODULE MC_Authenticator ---------------------------
(***************************************************************************)
(* Two concurrent calls, two usernames, passwords of every shape that      *)
(* matters (with or without the "eyJ" prefix, 0 to 3 dots), and three      *)
(* static tables: none, one user with a plain password, one user whose     *)
(* password has the shape of a JWT.                                        *)
(***************************************************************************)
EXTENDS Authenticator, TLC

CONSTANTS r1, r2, u1, u2

MCReq == {r1, r2}
MCUsers == {u1, u2}
MCVals == {"v"}

MCPlain == [prefix |-> FALSE, dots |-> 0, val |-> "v"]
MCJwtLike == [prefix |-> TRUE, dots |-> 2, val |-> "v"]
MCTables == {{}, {<<u1, MCPlain>>}, {<<u1, MCJwtLike>>}}

MCSymmetry == Permutations(MCReq)

=============================================================================

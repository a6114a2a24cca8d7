-------------------------- MODULE MCSyncConnection --------------------------
(***************************************************************************)
(* SyncConnection with the symmetry TLC may use in its safety runs:        *)
(* objects, contexts and calls are told apart by nothing but their         *)
(* identity.  The runs that check liveness or refinement do not use it.    *)
(***************************************************************************)
EXTENDS SyncConnection, TLC

Symmetry == Permutations(Object) \cup Permutations(Context)
                \cup Permutations(Call)

\* URLs with no password, the right and a wrong one, for a database that is
\* the default, another one, or one the server does not have.
AllConfigs == RedisConfig

\* URLs that a server without a password accepts.
OpenConfigs == [password : {"none"}, index : 0 .. Databases - 1]
=============================================================================

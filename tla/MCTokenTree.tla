---------------------------- MODULE MCTokenTree ----------------------------
(* Small instances of TokenTree for TLC. *)
EXTENDS TokenTree, TLC

CONSTANTS root, child

MCParents == root :> {root} @@ child :> {root, child}

\* All but those that do to the tree what another one does.
MCUsed ==
  {<<"create", "Token">>, <<"create", "TokenOrphan">>,
   <<"create", "WrappedToken">>, <<"lookup", "Token">>, <<"renew", "TokenSelf">>,
   <<"revoke", "Token">>, <<"revoke", "TokenSelf">>,
   <<"revoke", "TokenAccessor">>, <<"revoke", "TokenAndOrphanChildren">>,
   <<"unwrap", "-">>, <<"rewrap", "-">>, <<"lookup", "-">>}

Symmetry == Permutations(CallIds)
=============================================================================

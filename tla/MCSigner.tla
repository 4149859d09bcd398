------------------------------ MODULE MCSigner ------------------------------
(* Three plans over two package names: plan 2 rebuilds the package of plan 1 *)
(* under the same file name, and plan 3 has a package of its own.            *)
EXTENDS Signer, TLC

CONSTANTS old1, new1, other, keyring

MCContent == <<(1 :> old1), (1 :> new1), (2 :> other)>>

MCSize == (old1 :> 1) @@ (new1 :> 1) @@ (other :> 2) @@ (keyring :> 3)
=============================================================================

----------------------------- MODULE MCFwUpdate -----------------------------
(* Instances of FwUpdate for TLC: images of two pages, of an odd and of an    *)
(* even size, and one that is too big, over a factory image of one page.     *)
EXTENDS FwUpdate, TLC

CONSTANTS factory, update, even, huge

MCImage == {factory, update, even, huge}
MCLength == (factory :> 1) @@ (update :> 3) @@ (even :> 4) @@ (huge :> 5)
=============================================================================

-------------------------- MODULE MCFragmentSender --------------------------
(* FragmentSender on every size around the first box boundaries.           *)
EXTENDS FragmentSender

MCSizes == {1, 8, 255} \union 256 .. 1100 \union {65535, 65536}
=============================================================================

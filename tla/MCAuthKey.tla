------------------------------ MODULE MCAuthKey ------------------------------
(* AuthKey, for model checking.  Nothing tells one company from another.   *)
(* After a race or an adoption the properties claim nothing any more: such *)
(* states are reached, and left alone.                                     *)
EXTENDS AuthKey, TLC

CompanySymmetry == Permutations(Companies)

NotSpoilt == ~raced /\ ~adopted
=============================================================================

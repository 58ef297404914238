------------------------------- MODULE MCWhen -------------------------------
(* The instance of When that TLC checks: three branches.                    *)
EXTENDS When

=============================================================================

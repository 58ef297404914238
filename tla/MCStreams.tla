----------------------------- MODULE MCStreams ------------------------------
(***************************************************************************)
(* Two readers share an any_read_stream, or the second reads end 1 of the  *)
(* pair itself.  Each has three buffers, of which the first is empty; end  *)
(* 0 gives one byte at a time.  The test under armed() writes such buffers *)
(* in every way, and then asks for more than they hold.                    *)
(***************************************************************************)
EXTENDS Streams

CONSTANTS a, b

MCDirects == {{}, {b}}

MCSizes == <<0, 1, 1>>

MCMaxRead == [e \in Ends |-> e + 1]

MCOps ==
    <<[kind |-> "write", need |-> 2], [kind |-> "write_at_least", need |-> 1],
      [kind |-> "write_now", need |-> 2], [kind |-> "write_at_least", need |-> 3]>>
=============================================================================

---------------------------- MODULE CommandLine ----------------------------
(***************************************************************************)
(* main without a DMA test, from the command line to the exit status:      *)
(* SetOptions scans all arguments, then FindCmd looks among them for the   *)
(* command, which is run.  Arguments that are options are words without a  *)
(* command to FindCmd; a command and its options are taken apart, as the   *)
(* two parts share no variable.                                            *)
(***************************************************************************)
EXTENDS Options, Registers

MainInit ==
  \/ args = <<>> /\ OInit /\ Init
  \/ line = <<"other">> /\ windows = TRUE /\ connected = TRUE /\ Init /\ OInit

MainNext ==
  \/ ONext /\ UNCHANGED rvars
  \/ ~There(argc) /\ Next /\ UNCHANGED ovars

MainSpec == MainInit /\ [][MainNext]_<<ovars, rvars>>

=============================================================================

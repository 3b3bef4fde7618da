----------------------------- MODULE MCNamedPipe -----------------------------
(***************************************************************************)
(* Values of the constants of NamedPipe for TLC.  The clients are          *)
(* interchangeable: none is chosen by its name.                            *)
(***************************************************************************)
EXTENDS NamedPipe, TLC

ClientSymmetry == Permutations(Clients)

(* Everything but the two last_error members, which no step reads.         *)
View == <<server_vars, config_vars, start_vars, pipe_vars, thread_vars, failed, data_vars,
          client_pc, asked, emptied, got>>

=============================================================================

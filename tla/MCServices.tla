----------------------------- MODULE MCServices -----------------------------
(***************************************************************************)
(* The parts of the Windows library that share nothing with each other,    *)
(* for TLC: a program that uses one of them, chosen in the initial state.  *)
(* The threads are interchangeable: none is chosen by its name.            *)
(***************************************************************************)
EXTENDS WebRequest, Registry, ExternalProcess, Hook

VARIABLE service
vars == <<service, request_vars, registry_vars, process_vars, hooking_vars>>

Init ==
    /\ service \in {"web", "registry", "process", "hook"}
    /\ RequestInit /\ ProcessInit /\ RegistryInit /\ HookInit
    /\ service # "registry" => value = NoValue
    /\ service # "hook" => internal /\ \A p \in Pages : protect[p] = "rx"

Next ==
    /\ UNCHANGED service
    /\ \/ /\ service = "web" /\ RequestNext
          /\ UNCHANGED <<registry_vars, process_vars, hooking_vars>>
       \/ /\ service = "registry" /\ RegistryNext
          /\ UNCHANGED <<request_vars, process_vars, hooking_vars>>
       \/ /\ service = "process" /\ ProcessNext
          /\ UNCHANGED <<request_vars, registry_vars, hooking_vars>>
       \/ /\ service = "hook" /\ HookNext
          /\ UNCHANGED <<request_vars, registry_vars, process_vars>>

Spec == Init /\ [][Next]_vars

(* Every variable of the services has its type.                            *)
TypeOK == RequestTypeOK /\ RegistryTypeOK /\ ProcessTypeOK /\ HookTypeOK

String(data) == [type |-> "REG_SZ", data |-> data]

MCCharacters == {"a", "b", "c", "d", NUL}

(* Strings that do and do not end with a NUL, one with a NUL inside, and a *)
(* value of another type.                                                  *)
MCValues == {String(<<>>), String(<<"a", NUL>>), String(<<"b", "c">>),
             String(<<"a", NUL, "b", NUL>>), [type |-> "REG_DWORD", data |-> <<"d", "d">>]}

(* Two functions: the second begins on the page of the first, and a jump   *)
(* written over it crosses into the next page, which in one arrangement    *)
(* has another protection.                                                 *)
MCFunctions   == {1, 4}
MCProtections == {<<"rx", "rx">>, <<"rwx", "rx">>}
MCKinds       == {"absolute", "relative"}

(* Nothing is claimed of hooking once threads have met or a system call    *)
(* has failed, so what follows then is not explored.                       *)
Undisturbed == ~ disturbed

ThreadSymmetry == Permutations(Threads)

=============================================================================

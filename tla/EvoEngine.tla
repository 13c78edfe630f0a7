------------------------------ MODULE EvoEngine ------------------------------
(* The two views of the evolution engine of evomorph_runtime.c, one        *)
(* subject per behaviour: what its search finds (Evolution), and which     *)
(* memory it holds while the same operations succeed and fail              *)
(* (EvoOwnership).                                                         *)
EXTENDS Evolution

CONSTANT MaxBlocks    \* of EvoOwnership

VARIABLES subject, live, used, population, bestEver, broken, running

O == INSTANCE EvoOwnership WITH pop <- population, best <- bestEver

ASSUME BlocksAssumption == O!BlocksAssumption

memory     == <<live, used, population, bestEver, broken, running>>
engineVars == <<subject, vars, memory>>

EngineInit == subject \in {"search", "memory"} /\ Init /\ O!Init

Search == subject = "search" /\ Next /\ UNCHANGED <<subject, memory>>
Memory == subject = "memory" /\ O!Next /\ UNCHANGED <<subject, vars>>

EngineNext == Search \/ Memory

EngineSpec == EngineInit /\ [][EngineNext]_engineVars

-----------------------------------------------------------------------------
(* See EvoOwnership: what is held and live are blocks.                     *)
OwnershipTypeOK == O!TypeOK

(* See EvoOwnership: what the VM holds is live, and nothing is held twice. *)
NothingDangles == O!NothingDangles

(* See EvoOwnership: undefined is only what ends the array of individuals. *)
BreaksOnlyWithArray == O!BreaksOnlyWithArray
=============================================================================

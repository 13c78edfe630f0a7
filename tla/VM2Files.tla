------------------------------- MODULE VM2Files ------------------------------
(***************************************************************************)
(* The file handles of ichingvm2.c: one table, g_open_files, for all the   *)
(* VMs of a process.  The programs are well behaved: a program uses and    *)
(* closes the handles it was given, and nothing it has closed.  VMs are    *)
(* reset, destroyed and created again at any time, handles open or not.    *)
(*                                                                         *)
(* A FILE is a number that is not used again; of what is in a file only    *)
(* the position is kept, which reads, writes and seeks leave wherever they *)
(* tell the program.                                                       *)
(***************************************************************************)
EXTENDS Integers, FiniteSets

CONSTANTS
  None,        \* NULL
  VMs,
  MaxFiles,    \* MAX_OPEN_FILES
  MaxOpens,    \* bound of the model: the calls of fopen that succeed
  Positions    \* of a file; 0 at its start

(* Assumed by the module that gives these constants their values. *)
HandlesAssumption ==
  /\ None \notin Nat
  /\ MaxFiles \in Nat /\ MaxOpens \in Nat
  /\ 0 \in Positions

Slots == 0..(MaxFiles - 1)
File  == 1..MaxOpens

VARIABLES
  table,     \* g_open_files
  opens,     \* calls of fopen that succeeded
  open,      \* the FILEs that fclose has not seen
  position,  \* of each FILE
  held       \* history: by VM, its handles, with the FILE each was opened
             \*   for and the position last seen

vars == <<table, opens, open, position, held>>

Handle == [fd : Slots, file : File, at : Positions]

Init == /\ table = [i \in Slots |-> None]
        /\ opens = 0 /\ open = {}
        /\ position = [f \in File |-> 0]
        /\ held = [vm \in VMs |-> {}]

-----------------------------------------------------------------------------
Free == {i \in Slots : table[i] = None}

(* alloc_fd takes the first free entry. *)
First(slots) == CHOOSE i \in slots : \A j \in slots : i <= j

(* sys_open_file of a file that fopen opens, and room for it. *)
Open(vm) ==
  /\ opens < MaxOpens /\ Free # {}
  /\ opens'    = opens + 1
  /\ open'     = open \cup {opens'}
  /\ table'    = [table EXCEPT ![First(Free)] = opens']
  /\ held'     = [held EXCEPT ![vm] = @ \cup {[fd |-> First(Free), file |-> opens', at |-> 0]}]
  /\ UNCHANGED position

(* Slip: the FILE for which there is no room is not closed. *)
OpenedAndLost(vm) ==
  /\ opens < MaxOpens /\ Free = {}
  /\ opens' = opens + 1
  /\ open'  = open \cup {opens'}
  /\ UNCHANGED <<table, position, held>>

(* No room: it is closed again, and the program told so. *)
OpenWithoutRoom(vm) ==
  /\ opens < MaxOpens /\ Free = {}
  /\ opens' = opens + 1
  /\ UNCHANGED <<table, open, position, held>>

(* sys_read_file, sys_write_file and sys_seek_file. *)
Move(vm, h, p) ==
  /\ table[h.fd] # None
  /\ position' = [position EXCEPT ![table[h.fd]] = p]
  /\ held'     = [held EXCEPT ![vm] = (@ \ {h}) \cup {[h EXCEPT !.at = p]}]
  /\ UNCHANGED <<table, opens, open>>

(* Slip: the file is left at its end. *)
FileSizeAtEnd(vm, h, end) ==
  /\ table[h.fd] # None
  /\ position' = [position EXCEPT ![table[h.fd]] = end]
  /\ UNCHANGED <<table, opens, open, held>>

(* sys_file_size goes to the end, wherever it is, and back. *)
FileSize(vm, h, end) ==
  /\ table[h.fd] # None
  /\ position' = [[position EXCEPT ![table[h.fd]] = end]
                    EXCEPT ![table[h.fd]] = position[table[h.fd]]]
  /\ UNCHANGED <<table, opens, open, held>>

(* sys_close_file *)
Close(vm, h) ==
  /\ open'  = open \ {table[h.fd]}
  /\ table' = [table EXCEPT ![h.fd] = None]
  /\ held'  = [held EXCEPT ![vm] = @ \ {h}]
  /\ UNCHANGED <<opens, position>>

(* Slip: the files are closed with a VM, all of them. *)
EndCloses(vm) ==
  /\ held'  = [held EXCEPT ![vm] = {}]
  /\ open'  = {} /\ table' = [i \in Slots |-> None]
  /\ UNCHANGED <<opens, position>>

(* ichingvm2_reset, or ichingvm2_destroy and another create: the program   *)
(* and its handles are gone, the table is as it was.                       *)
End(vm) ==
  /\ held' = [held EXCEPT ![vm] = {}]
  /\ UNCHANGED <<table, opens, open, position>>

Next == \E vm \in VMs :
          \/ Open(vm)
          \/ OpenWithoutRoom(vm)
          \/ End(vm)
          \/ \E h \in held[vm] : \/ Close(vm, h)
                                 \/ \E p \in Positions : Move(vm, h, p) \/ FileSize(vm, h, p)

Spec == Init /\ [][Next]_vars

-----------------------------------------------------------------------------
TypeOK ==
  /\ table \in [Slots -> File \cup {None}]
  /\ opens \in 0..MaxOpens
  /\ open \subseteq File
  /\ position \in [File -> Positions]
  /\ held \in [VMs -> SUBSET Handle]

(* No FILE is lost: what fopen opened and fclose has not closed is in the  *)
(* table, once (alloc_fd, and the fclose in sys_open_file when it fails).  *)
OpenIsListed ==
  /\ open = {table[i] : i \in Slots} \ {None}
  /\ \A i, j \in Slots : table[i] = table[j] /\ table[i] # None => i = j

(* A handle stays what it was for the program that holds it, until that    *)
(* program closes it, although every VM of the process uses the table and  *)
(* VMs end without closing theirs: it is the file it was opened for, no    *)
(* other program has it, and the file is where the program left it.        *)
HandlesKept ==
  \A vm \in VMs : \A h \in held[vm] :
    /\ table[h.fd] = h.file
    /\ position[h.file] = h.at
    /\ \A other \in VMs : \A g \in held[other] :
         g.fd = h.fd => other = vm /\ g = h
=============================================================================

------------------------------ MODULE FdTable ------------------------------
(***************************************************************************)
(* Descriptor numbers: the kernel's table of what is open under each, and  *)
(* FdManager's table of what the hooks know of it.  The operators are the  *)
(* hooked calls, or the steps of them that other threads can come between. *)
(***************************************************************************)
EXTENDS Naturals, Sequences

CONSTANTS Fds,      \* descriptor numbers the process may have
          Nobody    \* no object, no entry

VARIABLES
    kern,       \* number -> the object open under it, or Nobody
    nonblock,   \* numbers whose O_NONBLOCK flag is set
    infos       \* _fds: number -> FdInfo [of, userNb, rdtimeout, closed], or Nobody

fdVars == <<kern, nonblock, infos>>

Free == {f \in Fds : kern[f] = Nobody}

(* The kernel opens an object under the lowest number that is free.        *)
KernelOpen(o, f) ==
    /\ f \in Free /\ \A g \in Free : f <= g
    /\ kern' = [kern EXCEPT ![f] = o]

(* lookUp(fd, true): always a new FdInfo, whose init sets O_NONBLOCK.  of  *)
(* is the object it was made for.                                          *)
Create(f, o, timeout) ==
    /\ infos' = [infos EXCEPT ![f] = [of |-> o, userNb |-> FALSE, rdtimeout |-> timeout,
                                      closed |-> FALSE]]
    /\ nonblock' = nonblock \cup {f}

(* The same with an init that fails to set O_NONBLOCK: the entry is made   *)
(* all the same, and says that it is closed.                               *)
CreateClosed(f, o, timeout) ==
    /\ infos' = [infos EXCEPT ![f] = [of |-> o, userNb |-> FALSE, rdtimeout |-> timeout,
                                      closed |-> TRUE]]
    /\ UNCHANGED nonblock

(* fcntl and do_io do nothing for a number with no entry or a closed one.  *)
Known(f) == infos[f] # Nobody /\ ~infos[f].closed

(* Mutant: the user's flag goes to the kernel as it is.                    *)
SetFlagsAsGiven(f, nb) ==
    /\ infos' = [infos EXCEPT ![f].userNb = nb]
    /\ nonblock' = IF nb THEN nonblock \cup {f} ELSE nonblock \ {f}
    /\ UNCHANGED kern

(* fcntl(F_SETFL): FdInfo remembers the user's O_NONBLOCK and the kernel's *)
(* stays set.                                                              *)
SetFlags(f, nb) ==
    IF ~Known(f)
    THEN /\ nonblock' = IF nb THEN nonblock \cup {f} ELSE nonblock \ {f}
         /\ UNCHANGED <<kern, infos>>
    ELSE /\ infos' = [infos EXCEPT ![f].userNb = nb]
         /\ nonblock' = nonblock \cup {f}
         /\ UNCHANGED kern

(* setsockopt(SO_RCVTIMEO) of a descriptor that FdManager knows.           *)
SetTimeout(f, timeout) ==
    /\ infos' = IF infos[f] = Nobody THEN infos ELSE [infos EXCEPT ![f].rdtimeout = timeout]
    /\ UNCHANGED <<kern, nonblock>>

(* close, after it has cancelled what waits for the descriptor: first the  *)
(* entry goes, then the descriptor.                                        *)
Del(f) == infos' = [infos EXCEPT ![f] = Nobody] /\ UNCHANGED <<kern, nonblock>>

CloseF(f) ==
    /\ kern' = [kern EXCEPT ![f] = Nobody]
    /\ nonblock' = nonblock \ {f}
    /\ UNCHANGED infos

FdInit ==
    /\ kern = [f \in Fds |-> Nobody]
    /\ nonblock = {}
    /\ infos = [f \in Fds |-> Nobody]
=============================================================================

------------------------------ MODULE Listening ------------------------------
(***************************************************************************)
(* fast_conn_listen.c: an array of listening sockets, opened with tries    *)
(* while an address is in use, and registered with epoll.  Other processes *)
(* take and leave addresses meanwhile, and every system call may fail.     *)
(***************************************************************************)
EXTENDS Integers, Sequences

CONSTANTS
  Addresses,      \* of a listener; two may have the same
  MaxListeners,   \* bound: elements of the array
  MaxTries,       \* the tries of conn_listening_open
  Sockets,        \* file descriptors
  NoSocket,       \* FAST_INVALID_FILE
  NULL

(* What the proofs assume of the parameters.                               *)
ListenAssumption ==
  /\ NoSocket \notin Sockets /\ NULL \notin Sockets \cup {NoSocket}
  /\ MaxTries \in Nat

VARIABLES
  ls,             \* the array: [addr, ignore, fd, conn], conn the fd of the
                  \* connection made for it, or NULL
  open,           \* kernel: sockets that are open
  used,           \* kernel: addresses other processes listen on
  registered,     \* kernel: socket in epoll -> the listener its connection has
  work            \* the function that runs: at, i, tries, failed; and the last ret

listening_vars == <<ls, open, used, registered, work>>

Idle == [at |-> "idle", i |-> 0, tries |-> 0, failed |-> FALSE, ret |-> "none"]

ListenInit ==
  /\ ls = << >> /\ open = {} /\ used = {} /\ work = Idle
  /\ registered = [s \in {} |-> 0]

Ours(addr) == \E j \in DOMAIN ls : ls[j].fd \in open /\ ls[j].addr = addr

Return(ret) == work' = [Idle EXCEPT !.ret = ret]

-----------------------------------------------------------------------------
(* conn_listening_add, and what the program sets in the element. *)
ListeningAdd == \E addr \in Addresses : \E ignore \in BOOLEAN :
  /\ work.at = "idle" /\ Len(ls) < MaxListeners
  /\ ls' = Append(ls, [addr |-> addr, ignore |-> ignore, fd |-> NoSocket, conn |-> NULL])
  /\ work' = Idle
  /\ UNCHANGED <<open, used, registered>>

OpenBegin ==
  /\ work.at = "idle"
  /\ work' = [Idle EXCEPT !.at = "open", !.i = 1, !.tries = MaxTries]
  /\ UNCHANGED <<ls, open, used, registered>>

(* The next of the array; an inherited one is like one ignored. *)
Opening == work.at = "open" /\ work.i \in DOMAIN ls
Skipped == ls[work.i].ignore \/ ls[work.i].fd # NoSocket

OpenSkip ==
  /\ Opening /\ Skipped
  /\ work' = [work EXCEPT !.i = @ + 1]
  /\ UNCHANGED <<ls, open, used, registered>>

(* socket, the options, bind and listen. *)
OpenListens == \E s \in Sockets \ open :
  /\ Opening /\ ~Skipped
  /\ ls[work.i].addr \notin used /\ ~Ours(ls[work.i].addr)
  /\ ls' = [ls EXCEPT ![work.i].fd = s]
  /\ open' = open \cup {s}
  /\ work' = [work EXCEPT !.i = @ + 1]
  /\ UNCHANGED <<used, registered>>

(* Mutated form: the socket that could not be bound stays open. *)
OpenInUse_NoClose == \E s \in Sockets \ open :
  /\ Opening /\ ~Skipped
  /\ ls[work.i].addr \in used \/ Ours(ls[work.i].addr)
  /\ open' = open \cup {s}
  /\ work' = [work EXCEPT !.i = @ + 1, !.failed = TRUE]
  /\ UNCHANGED <<ls, used, registered>>

(* bind finds the address in use: the socket is closed and the next tried. *)
(* Should close change errno before it is looked at, this is OpenFails.    *)
OpenInUse ==
  /\ Opening /\ ~Skipped
  /\ ls[work.i].addr \in used \/ Ours(ls[work.i].addr)
  /\ work' = [work EXCEPT !.i = @ + 1, !.failed = TRUE]
  /\ UNCHANGED <<ls, open, used, registered>>

(* socket, an option, bind or listen fails: what is open stays so. *)
OpenFails ==
  /\ Opening /\ ~Skipped
  /\ Return("error")
  /\ UNCHANGED <<ls, open, used, registered>>

(* The end of one try; the next comes 500 ms later. *)
OpenPass ==
  /\ work.at = "open" /\ work.i \notin DOMAIN ls
  /\ IF work.failed /\ work.tries > 1
     THEN work' = [work EXCEPT !.i = 1, !.tries = @ - 1, !.failed = FALSE]
     ELSE Return(IF work.failed THEN "error" ELSE "ok")
  /\ UNCHANGED <<ls, open, used, registered>>

-----------------------------------------------------------------------------
AddEventBegin ==
  /\ work.at = "idle" /\ ls # << >>
  /\ work' = [Idle EXCEPT !.at = "add", !.i = 1]
  /\ UNCHANGED <<ls, open, used, registered>>

(* A new connection is of the first listener's socket, whatever i is.      *)
ConnOf(i) == IF ls[i].conn = NULL THEN ls[1].fd ELSE ls[i].conn

(* One element of conn_listening_add_event: epoll_ctl refuses a socket it  *)
(* has and one that is not open, and ends the call.                        *)
AddEvent ==
  LET i == work.i
      s == ConnOf(i)
  IN  /\ work.at = "add" /\ i \in DOMAIN ls
      /\ ls' = [ls EXCEPT ![i].conn = s]
      /\ IF s \in open /\ s \notin DOMAIN registered
         THEN /\ registered' = [r \in DOMAIN registered \cup {s} |->
                                  IF r = s THEN i ELSE registered[r]]
              /\ work' = [work EXCEPT !.i = @ + 1]
         ELSE Return("error") /\ UNCHANGED registered
      /\ UNCHANGED <<open, used>>

(* There is no memory for the connection. *)
AddEventFails ==
  /\ work.at = "add" /\ work.i \in DOMAIN ls /\ ls[work.i].conn = NULL
  /\ Return("error")
  /\ UNCHANGED <<ls, open, used, registered>>

AddEventDone ==
  /\ work.at = "add" /\ work.i \notin DOMAIN ls
  /\ Return("served")
  /\ UNCHANGED <<ls, open, used, registered>>

(* conn_listening_del_event, when every element has its connection. *)
DelEvent ==
  LET known == {i \in DOMAIN ls : \A j \in 1 .. i :
                  /\ ls[j].conn \in DOMAIN registered
                  /\ \A k \in 1 .. j - 1 : ls[k].conn # ls[j].conn}
      gone  == {ls[i].conn : i \in known}
  IN  /\ work.at = "idle" /\ \A i \in DOMAIN ls : ls[i].conn # NULL
      /\ registered' = [s \in DOMAIN registered \ gone |-> registered[s]]
      /\ Return(IF known = DOMAIN ls THEN "deleted" ELSE "error")
      /\ UNCHANGED <<ls, open, used>>

-----------------------------------------------------------------------------
(* Another process begins or ends to listen. *)
Others == \E addr \in Addresses :
  /\ addr \in used \/ ~Ours(addr)
  /\ used' = IF addr \in used THEN used \ {addr} ELSE used \cup {addr}
  /\ work' = IF work.at = "idle" THEN Idle ELSE work
  /\ UNCHANGED <<ls, open, registered>>

ListenNext ==
  \/ ListeningAdd
  \/ OpenBegin \/ OpenSkip \/ OpenListens \/ OpenInUse \/ OpenFails \/ OpenPass
  \/ AddEventBegin \/ AddEvent \/ AddEventFails \/ AddEventDone \/ DelEvent
  \/ Others

-----------------------------------------------------------------------------
(* Through tries and failures, the open sockets are exactly those the      *)
(* array names, one each: none leaks, and what a call that failed left     *)
(* open is found, and kept, by the next.                                   *)
NoSocketLost ==
  /\ open = {ls[i].fd : i \in DOMAIN ls} \ {NoSocket}
  /\ \A i, j \in DOMAIN ls : i # j /\ ls[i].fd # NoSocket => ls[i].fd # ls[j].fd

(* conn_listening_open gives FAST_OK exactly when every listener that is   *)
(* not ignored listens, unless it gives up for a failure that trying again *)
(* does not mend.                                                          *)
OpenTrue ==
  LET listens == \A i \in DOMAIN ls : ls[i].ignore \/ ls[i].fd \in open
  IN  /\ work.ret = "ok" => listens
      /\ work.at = "open" /\ work.i \notin DOMAIN ls => (work.failed <=> ~listens)

(* conn_listening_add_event gives FAST_OK only when each listener has its  *)
(* own socket registered for itself.                                       *)
AddedIsServed ==
  work.ret = "served" =>
    \A i \in DOMAIN ls : ls[i].fd \in DOMAIN registered /\ registered[ls[i].fd] = i
=============================================================================

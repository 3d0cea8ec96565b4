---------------------------- MODULE EpollPoller -----------------------------
(***************************************************************************)
(* A Channel and its registration with the EpollPoller of its loop         *)
(* (Channel.cpp, poller/EpollPoller.cpp), as operators on one record:      *)
(*   events      Channel::_events, what the owner wants to hear of         *)
(*   index       Channel::_index, what the poller believes                 *)
(*   mapped      the channel is in Poller::_channels                       *)
(*   registered  the kernel's epoll set has the fd, with these events      *)
(*   failed      some epoll_ctl returned an error, which update() logs     *)
(* All of it belongs to the loop's thread.                                 *)
(***************************************************************************)
EXTENDS Naturals

Reading == "kReadEvent"
Writing == "kWriteEvent"
Indexes == {"kNew", "kAdded", "kDeleted"}

Channels == [events : SUBSET {Reading, Writing}, index : Indexes,
             mapped : BOOLEAN, registered : BOOLEAN, failed : BOOLEAN]

NewChannel == [events |-> {}, index |-> "kNew",
               mapped |-> FALSE, registered |-> FALSE, failed |-> FALSE]

isWriting(ch) == Writing \in ch.events

(* EpollPoller::update.  The kernel refuses to add what is there, and to   *)
(* change or delete what is not.                                           *)
update(op, ch) ==
    [ch EXCEPT !.registered = (op # "DEL"),
               !.failed = @ \/ ((op = "ADD") <=> ch.registered)]

updateChannel(ch) ==
    CASE ch.index # "kAdded" ->
           update("ADD", [ch EXCEPT !.index = "kAdded", !.mapped = @ \/ ch.index = "kNew"])
      [] ch.index = "kAdded" /\ ch.events = {} ->
           [update("DEL", ch) EXCEPT !.index = "kDeleted"]
      [] ch.index = "kAdded" /\ ch.events # {} ->
           update("MOD", ch)

(* Fault: the fd is erased from the map and left in the epoll set. *)
removeChannelNoDel(ch) == [ch EXCEPT !.mapped = FALSE, !.index = "kNew"]

removeChannel(ch) ==
    [(IF ch.index = "kAdded" THEN update("DEL", ch) ELSE ch)
        EXCEPT !.mapped = FALSE, !.index = "kNew"]

enableReading(ch)  == updateChannel([ch EXCEPT !.events = @ \cup {Reading}])
enableWriting(ch)  == updateChannel([ch EXCEPT !.events = @ \cup {Writing}])
disableWriting(ch) == updateChannel([ch EXCEPT !.events = @ \ {Writing}])
disableAll(ch)     == updateChannel([ch EXCEPT !.events = {}])

(* The poller's books agree with the kernel, and no epoll_ctl ever failed. *)
Consistent(ch) ==
    /\ ch.registered <=> ch.index = "kAdded"
    /\ ch.mapped <=> ch.index # "kNew"
    /\ ~ch.failed
=============================================================================

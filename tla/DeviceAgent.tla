---------------------------- MODULE DeviceAgent ----------------------------
(***************************************************************************)
(* The device program: the service manager, which talks to the manager     *)
(* program through the websocket client, and the service control, which    *)
(* keeps the state of the device.  The two services run on different       *)
(* workers and exchange messages; the client's handlers run on the thread  *)
(* of the sender.  The queue of the client is the one of PlatformLink:     *)
(* here a frame is done with once it is handed to the client.              *)
(***************************************************************************)
EXTENDS Naturals, Sequences

CONSTANTS
    MaxReads,      \* bound on messages the device reads
    MaxLosses      \* bound on connections lost or not made

ASSUME DeviceAssumption == MaxReads \in Nat /\ MaxLosses \in Nat

VARIABLES
    link,      \* of the client: connecting, up, closing, lost
    reads,     \* messages read so far
    losses,    \* connections lost or not made so far
    managerBox, controlBox,  \* the mailboxes of the two services
    status,    \* control::impl::status
    initial,   \* what the uninitialised status happened to hold
    closing,   \* ws_client::impl::closing_message is set
    asked,     \* the commands read so far, a history
    handed,    \* the frames given to the client, a history
    process    \* running, stopped (the loop has ended), down, or terminated by an exception

deviceVars == <<link, reads, losses, managerBox, controlBox, status, initial, closing,
                asked, handed, process>>

\* manager::impl::get_service_list with the handlers control attaches.
Commands == {"on", "off", "status"}

\* Requests that are not commands: a method without a dot, one the device does
\* not have, one without metadata.transport, and one named after a handler that
\* every actor has, as control.skip is.
OtherRequests == {"short", "unknown", "untransported", "builtin"}

\* Frames: the answer to the n-th command, the notification it causes, and the
\* two requests the device makes itself.
Answer(n, v) == [frame |-> "answer", of |-> n, value |-> v]

Notification(n, v) == [frame |-> "notify", of |-> n, value |-> v]

Request(method) == [frame |-> method, of |-> 0, value |-> TRUE]

\* device.cpp: the services are constructed and the client starts to connect;
\* control::startup leaves status as it is in memory.
DeviceInit ==
    /\ link = "connecting" /\ reads = 0 /\ losses = 0
    /\ managerBox = <<>> /\ controlBox = <<>>
    /\ status \in BOOLEAN /\ initial = status
    /\ closing = FALSE
    /\ asked = <<>> /\ handed = <<>> /\ process = "running"

----------------------------------------------------------------------------
(* The handlers of the websocket client *)

HandOver(frame) == handed' = Append(handed, frame)

\* set_closing_message
SetClosingMessage == closing' = TRUE

\* close, while the connection is up.
Closed == IF link = "up" THEN "closing" ELSE link

\* reconnect: the session runs again from the resolution of the address.
Restarted == "connecting"

----------------------------------------------------------------------------
(* The websocket client, on the io thread *)

Connected ==
    /\ process = "running" /\ link = "connecting"
    /\ link' = "up"
    /\ managerBox' = Append(managerBox, [event |-> "handshake"])
    /\ UNCHANGED <<reads, losses, controlBox, status, initial, closing, asked, handed, process>>

\* The address is not found, the connect fails or the handshake does; only the
\* connect tells the manager, with an error it retries after or with another.
ConnectFails ==
    /\ process = "running" /\ link = "connecting"
    /\ losses < MaxLosses
    /\ losses' = losses + 1
    /\ link' = "lost"
    /\ \/ UNCHANGED managerBox
       \/ \E event \in {"gone", "failed"} :
            managerBox' = Append(managerBox, [event |-> event])
    /\ UNCHANGED <<reads, controlBox, status, initial, closing, asked, handed, process>>

\* A message of the manager program: a request, a refusal of devices.connect or
\* its response.
Read(event) ==
    /\ process = "running" /\ link = "up"
    /\ reads < MaxReads /\ reads' = reads + 1
    /\ asked' = IF event \in Commands THEN Append(asked, event) ELSE asked
    /\ managerBox' = Append(managerBox,
            IF event \in Commands THEN [event |-> event, of |-> Len(asked) + 1]
                                  ELSE [event |-> event])
    /\ UNCHANGED <<link, losses, controlBox, status, initial, closing, handed, process>>

\* The read fails, after a close or because the connection is lost: with an
\* error the manager retries after, or with another one.
ReadFails ==
    /\ process = "running" /\ link \in {"up", "closing"}
    /\ losses < MaxLosses
    /\ losses' = losses + 1
    /\ link' = "lost"
    /\ \E event \in {"gone", "failed"} :
        managerBox' = Append(managerBox, [event |-> event])
    /\ UNCHANGED <<reads, controlBox, status, initial, closing, asked, handed, process>>

----------------------------------------------------------------------------
(* device::manager *)

Takes(events) ==
    /\ process \in {"running", "stopped"}
    /\ managerBox # <<>> /\ Head(managerBox).event \in events
    /\ managerBox' = Tail(managerBox)

\* dispatcher: a method of a service in the list goes to that service.
DispatchCommand ==
    /\ Takes(Commands)
    /\ controlBox' = Append(controlBox, Head(managerBox))
    /\ UNCHANGED <<link, reads, losses, status, initial, closing, asked, handed, process>>

\* dispatcher: a method without a service is only logged.
DispatchShort ==
    /\ Takes({"short"})
    /\ UNCHANGED <<link, reads, losses, controlBox, status, initial, closing, asked, handed, process>>

\* dispatcher: the refusal of a request goes to addresses("ws"), which the
\* device program does not have, and metadata.transport is read before it is
\* known to be there: either way the handler throws and the process ends, so
\* the branch for a disconnect without a transport is never reached.
DispatchThrows ==
    /\ Takes({"unknown", "untransported"})
    /\ process' = "terminated"
    /\ UNCHANGED <<link, reads, losses, controlBox, status, initial, closing, asked, handed>>

\* dispatcher: control.sync_contacts, skip and add_channel are in message_types
\* and go to control.  The first and the last read the task as another type; skip
\* sends the manager an "error" with a string, which the manager reads as a
\* transport.  Nobody answers, and the process goes on or ends.
DispatchBuiltIn ==
    /\ Takes({"builtin"})
    /\ process' \in {process, "terminated"}
    /\ UNCHANGED <<link, reads, losses, controlBox, status, initial, closing, asked, handed>>

\* dispatcher: an error, the manager program refuses the device.
DispatchRefusal ==
    /\ Takes({"refusal"})
    /\ link' = Closed
    /\ UNCHANGED <<reads, losses, controlBox, status, initial, closing, asked, handed, process>>

\* dispatcher: the response to devices.connect sets the closing message.
DispatchResponse ==
    /\ Takes({"response"})
    /\ SetClosingMessage
    /\ UNCHANGED <<link, reads, losses, controlBox, status, initial, asked, handed, process>>

Handshake ==
    /\ Takes({"handshake"})
    /\ HandOver(Request("devices.connect"))
    /\ UNCHANGED <<link, reads, losses, controlBox, status, initial, closing, asked, process>>

\* error: wait and reconnect when the peer is gone, close otherwise.
ErrorHandler ==
    /\ Takes({"gone", "failed"})
    /\ link' = IF Head(managerBox).event = "gone" THEN Restarted ELSE Closed
    /\ UNCHANGED <<reads, losses, controlBox, status, initial, closing, asked, handed, process>>

\* write: add the metadata of the device to the frame and hand it over.
Write ==
    /\ Takes({"write"})
    /\ HandOver(Head(managerBox).frame)
    /\ UNCHANGED <<link, reads, losses, controlBox, status, initial, closing, asked, process>>

----------------------------------------------------------------------------
(* device::control *)

\* Mutant: the notification leaves before the answer.
SwitchNotifiesFirst(command, on) ==
    LET c == Head(controlBox)
        write(f) == [event |-> "write", frame |-> f]
    IN  /\ process \in {"running", "stopped"}
        /\ controlBox # <<>> /\ c.event = command
        /\ controlBox' = Tail(controlBox)
        /\ status' = on
        /\ managerBox' = managerBox \o
                <<write(Notification(c.of, on)), write(Answer(c.of, TRUE))>>
        /\ UNCHANGED <<link, reads, losses, initial, closing, asked, handed, process>>

\* on and off: keep the status, answer, then notify of control.status.
Switch(command, on) ==
    LET c == Head(controlBox)
        write(f) == [event |-> "write", frame |-> f]
    IN  /\ process \in {"running", "stopped"}
        /\ controlBox # <<>> /\ c.event = command
        /\ controlBox' = Tail(controlBox)
        /\ status' = on
        /\ managerBox' = managerBox \o
                <<write(Answer(c.of, TRUE)), write(Notification(c.of, on))>>
        /\ UNCHANGED <<link, reads, losses, initial, closing, asked, handed, process>>

On == Switch("on", TRUE)

Off == Switch("off", FALSE)

Status ==
    /\ process \in {"running", "stopped"}
    /\ controlBox # <<>> /\ Head(controlBox).event = "status"
    /\ controlBox' = Tail(controlBox)
    /\ managerBox' = Append(managerBox,
            [event |-> "write", frame |-> Answer(Head(controlBox).of, status)])
    /\ UNCHANGED <<link, reads, losses, status, initial, closing, asked, handed, process>>

\* dynamic_environment::shutdown, called for a signal and again by startup when
\* the loop has ended; the workers go on in between.  ws_client::shutdown hands
\* the closing message over, if there is one, or closes the connection.
DeviceShutdown ==
    /\ process \in {"running", "stopped"}
    /\ process' = IF process = "running" THEN "stopped" ELSE "down"
    /\ \/ closing /\ HandOver(Request("devices.disconnect")) /\ UNCHANGED link
       \/ ~closing /\ link' = Closed /\ UNCHANGED handed
    /\ UNCHANGED <<reads, losses, managerBox, controlBox, status, initial, closing, asked>>

DeviceNext ==
    \/ Connected \/ ConnectFails \/ ReadFails
    \/ \E event \in Commands \cup OtherRequests \cup {"refusal", "response"} : Read(event)
    \/ DispatchCommand \/ DispatchShort \/ DispatchThrows \/ DispatchBuiltIn
    \/ DispatchRefusal \/ DispatchResponse \/ Handshake \/ ErrorHandler \/ Write
    \/ On \/ Off \/ Status
    \/ DeviceShutdown

DeviceSpec == DeviceInit /\ [][DeviceNext]_deviceVars

----------------------------------------------------------------------------
(* Properties *)

\* The status after the first n commands that were read: what the last switch
\* made it, or what it was when there was none.
StatusAfter(n) ==
    \/ \E i \in 1..n : asked[i] = "on" /\ \A j \in (i + 1)..n : asked[j] = "status"
    \/ initial /\ \A j \in 1..n : asked[j] = "status"

\* The frames due for the n-th command.
Due(n) ==
    IF asked[n] = "status" THEN {Answer(n, StatusAfter(n))}
    ELSE {Answer(n, TRUE), Notification(n, asked[n] = "on")}

\* Frame f leaves before frame g.
Before(f, g) ==
    \/ f.of < g.of
    \/ f.of = g.of /\ f.frame = "answer" /\ g.frame = "notify"

\* The places of the frames control made among those given to the client.
Replies == {i \in DOMAIN handed : handed[i].frame \in {"answer", "notify"}}

\* Commands are answered in the order they were read, none is passed over or
\* answered twice, each answer has the state the commands before it left, and
\* the notification of a change stands right after the answer to the command
\* that made it, whatever manager, control and the io thread do in between and
\* whatever connections are lost.
AnswersInOrder ==
    \A i \in Replies :
        /\ handed[i].of \in DOMAIN asked /\ handed[i] \in Due(handed[i].of)
        /\ \A j \in Replies : j < i => Before(handed[j], handed[i])
        /\ \A n \in DOMAIN asked : \A f \in Due(n) :
            Before(f, handed[i]) => \E j \in Replies : j < i /\ handed[j] = f
=============================================================================

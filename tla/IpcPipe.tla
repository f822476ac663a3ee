------------------------------ MODULE IpcPipe ------------------------------
(***************************************************************************)
(* The named pipe between Pc_data (IpcServer, one client) and Pc_ui        *)
(* (IpcClient), as a record: up, and the frames written in each direction  *)
(* and not yet handled at the other end.  Frames end in a newline and are  *)
(* written whole under m_sendMutex, so each direction is a FIFO queue of   *)
(* messages.  WriteFile blocks while the pipe is full: a thread of Pc_data *)
(* sends only when CanSend holds.  What is in the pipe when it breaks is   *)
(* lost, and both ends clear their receive buffers.                        *)
(***************************************************************************)
EXTENDS Naturals, Sequences

CONSTANT PipeMax   \* frames the pipe holds towards Pc_ui

ASSUME PipeAssumption == PipeMax \in Nat \ {0}

Pipe(toUi, toSvc) == [up : BOOLEAN, toUi : Seq(toUi), toSvc : Seq(toSvc)]

Broken == [up |-> FALSE, toUi |-> <<>>, toSvc |-> <<>>]
Opened == [Broken EXCEPT !.up = TRUE]

CanSend(p) == p.up => Len(p.toUi) < PipeMax

(* IpcServer::sendMessage: nothing is written without a client.            *)
ServerSend(p, m) == IF p.up THEN [p EXCEPT !.toUi = Append(@, m)] ELSE p

(* IpcClient::sendMessage, called by MainWindow's request methods, which   *)
(* look at isConnected first.                                              *)
ClientSend(p, m) == IF p.up THEN [p EXCEPT !.toSvc = Append(@, m)] ELSE p

(* The receive loops hand on one frame at a time, in order.                *)
ClientRead(p) == [p EXCEPT !.toUi = Tail(@)]
ServerRead(p) == [p EXCEPT !.toSvc = Tail(@)]
=============================================================================

----------------------------- MODULE FileServer -----------------------------
(***************************************************************************)
(* nonstop_networking: server.c, a file store with one thread that serves  *)
(* the connections epoll reports one after the other, each to its end with *)
(* blocking reads; and client.c, which sends one request, half closes the  *)
(* connection and reads the answer.                                        *)
(*                                                                         *)
(* A request is a header line, and for PUT a size and chunks of 4096       *)
(* bytes.  What one call of my_read or my_write moves is one message; a    *)
(* message that was sent arrives, also when its sender is gone, and so does *)
(* an answer to a client that is still there.                              *)
(***************************************************************************)
EXTENDS Integers, Sequences, FiniteSets, SequencesExt

CONSTANTS Clients,
          Names,      \* of files; one that is PUT can be created in dir
          NameLength, \* the length of each name
          Requests,   \* [verb, name, size, sends]: what clients may ask for;
                      \* size chunks are announced and sends chunks sent;
                      \* the header of a verb that is not in Verbs is any other line
          NULL

ASSUME FileServerAssumption ==
    /\ NameLength \in [Names -> Nat \ {0}]
    /\ \A r \in Requests : r.name \in Names /\ r.size \in Nat /\ r.sends \in Nat
    /\ "accept" \notin Clients
    /\ NULL \notin Clients \cup Requests
    /\ NULL \notin [status : {"OK", "ERROR"}, size : Nat, body : Nat]

VARIABLES stage,    \* of each client
          request,  \* what a client asks for
          sent,     \* how many messages of it were sent,
          taken,    \* and how many the server has read
          answer,   \* [status, size, body], or NULL
          server,   \* "loop", where in a request it waits, or how it ended
          backlog,  \* the connections that were not yet accepted
          events,   \* what is left of the last epoll_wait
          cur_fd, size, bytes_rw,
          disk,     \* the number of chunks in each file of dir
          filelist, list_size

clientVars == <<stage, request, sent>>
loopVars   == <<server, backlog, events, cur_fd>>
storeVars  == <<disk, filelist, list_size>>
vars == <<stage, request, sent, taken, answer, server, backlog,
          events, cur_fd, size, bytes_rw, disk, filelist, list_size>>

Init == /\ stage = [c \in Clients |-> "idle"]
        /\ request = [c \in Clients |-> NULL]
        /\ sent = [c \in Clients |-> 0] /\ taken = [c \in Clients |-> 0]
        /\ answer = [c \in Clients |-> NULL]
        /\ server = "loop" /\ backlog = <<>> /\ events = {} /\ cur_fd = NULL
        /\ size = 0 /\ bytes_rw = 0
        /\ disk = [n \in {} |-> 0] /\ filelist = <<>> /\ list_size = 0

Down == server \in {"interrupted", "exited"}

-----------------------------------------------------------------------------
(* client.c                                                                *)
Length(r) == IF r.verb = "PUT" THEN 2 + r.sends ELSE 1

Connect(c) ==
    /\ stage[c] = "idle" /\ ~Down
    /\ \E r \in Requests : request' = [request EXCEPT ![c] = r]
    /\ stage' = [stage EXCEPT ![c] = "sending"]
    /\ backlog' = Append(backlog, c)
    /\ UNCHANGED <<sent, taken, answer, server, events, cur_fd, size, bytes_rw, storeVars>>

Closed(c) == Down \/ answer[c] # NULL

send_request(c) ==
    /\ stage[c] = "sending" /\ sent[c] < Length(request[c]) /\ ~Closed(c)
    /\ sent' = [sent EXCEPT ![c] = @ + 1]
    /\ UNCHANGED <<stage, request, taken, answer, loopVars, size, bytes_rw, storeVars>>

\* The client exits and its connection is forgotten.
Leave(c) ==
    /\ stage' = [stage EXCEPT ![c] = "idle"]
    /\ request' = [request EXCEPT ![c] = NULL]
    /\ sent' = [sent EXCEPT ![c] = 0] /\ taken' = [taken EXCEPT ![c] = 0]
    /\ answer' = [answer EXCEPT ![c] = NULL]
    /\ backlog' = RemoveFirst(backlog, c)
    /\ UNCHANGED <<server, events, cur_fd, size, bytes_rw, storeVars>>

send_fails(c) ==
    /\ stage[c] = "sending" /\ sent[c] < Length(request[c]) /\ Closed(c)
    /\ Leave(c)

\* Mutant: the connection is not half closed after a PUT.
ShutdownNotPut(c) ==
    /\ stage[c] = "sending" /\ sent[c] = Length(request[c])
    /\ stage' = [stage EXCEPT ![c] = IF request[c].verb = "PUT" THEN "open" ELSE "waiting"]
    /\ UNCHANGED <<request, sent, taken, answer, loopVars, size, bytes_rw, storeVars>>

Shutdown(c) ==
    /\ stage[c] = "sending" /\ sent[c] = Length(request[c])
    /\ stage' = [stage EXCEPT ![c] = "waiting"]
    /\ UNCHANGED <<request, sent, taken, answer, loopVars, size, bytes_rw, storeVars>>

\* A client is killed, or leaves because the local file of its PUT cannot be
\* opened (lines 37-42, after the header was sent).
BreakOff(c) ==
    /\ stage[c] \in {"sending", "waiting"}
    /\ stage' = [stage EXCEPT ![c] = "gone"]
    /\ UNCHANGED <<request, sent, taken, answer, loopVars, size, bytes_rw, storeVars>>

\* What is printed: data are compared with the announced size.
Understood(r, a) ==
    IF a = NULL THEN "invalid response"
    ELSE IF a.status = "ERROR" THEN "error"
    ELSE IF r.verb \in {"PUT", "DELETE"} \/ a.body = a.size THEN "success"
    ELSE IF a.body < a.size THEN "too little data" ELSE "too much data"

handle_response(c) == stage[c] = "waiting" /\ Closed(c) /\ Leave(c)

-----------------------------------------------------------------------------
(* server.c: the event loop                                                *)
Unread(c) == taken[c] < sent[c]

\* A read by the server returns without data: the client has shut down or
\* broken off.
AtEnd(c) == ~Unread(c) /\ stage[c] \in {"waiting", "gone"}

Accepted(c) == request[c] # NULL /\ answer[c] = NULL /\ c \notin ToSet(backlog)

epoll_wait ==
    /\ server = "loop" /\ events = {}
    /\ events' = {c \in Clients : Accepted(c) /\ (Unread(c) \/ AtEnd(c))}
                    \cup (IF backlog = <<>> THEN {} ELSE {"accept"})
    /\ events' # {}
    /\ UNCHANGED <<clientVars, taken, answer, server, backlog, cur_fd, size, bytes_rw, storeVars>>

Accept == /\ server = "loop" /\ "accept" \in events
          /\ events' = events \ {"accept"}
          /\ backlog' = Tail(backlog)
          /\ UNCHANGED <<clientVars, taken, answer, server, cur_fd, size, bytes_rw, storeVars>>

handle_client_request ==
    /\ server = "loop"
    /\ \E c \in events \cap Clients :
         events' = events \ {c} /\ cur_fd' = c /\ server' = "header"
    /\ UNCHANGED <<clientVars, taken, answer, backlog, size, bytes_rw, storeVars>>

\* Nothing more is asked of the request at hand.
Done == cur_fd' = NULL /\ size' = 0 /\ bytes_rw' = 0

\* handle_sigint removes the listed files; the program ends.
handle_sigint == /\ server' = "interrupted" /\ Done
                 /\ disk' = [n \in DOMAIN disk \ ToSet(filelist) |-> disk[n]]
                 /\ UNCHANGED <<taken, answer, filelist, list_size>>

\* The answer is written and the connection closed.  Writing to a client
\* that is gone may fail, and then the program exits.
Respond(status, length, body) ==
    /\ Done
    /\ \/ /\ answer' = [answer EXCEPT
                          ![cur_fd] = [status |-> status, size |-> length, body |-> body]]
          /\ server' = "loop"
       \/ stage[cur_fd] = "gone" /\ server' = "exited" /\ UNCHANGED answer

MyRead == Unread(cur_fd) /\ taken' = [taken EXCEPT ![cur_fd] = @ + 1]

\* The connection was reset: read fails.
Reset(c) == AtEnd(c) /\ stage[c] = "gone"

-----------------------------------------------------------------------------
(* server.c: read_request_header and send_response                         *)
Name == request[cur_fd].name

Exists == Name \in DOMAIN disk

Get == /\ IF Exists THEN Respond("OK", disk[Name], disk[Name])
                    ELSE Respond("ERROR", 0, 0)
       /\ UNCHANGED storeVars

\* The bytes of all names, and the newlines between them.
NameBytes == UNION {{i} \X (1..NameLength[filelist[i]]) : i \in DOMAIN filelist}

ListBytes == Cardinality(NameBytes) + (IF filelist = <<>> THEN 0 ELSE Len(filelist) - 1)

List == Respond("OK", list_size, ListBytes) /\ UNCHANGED storeVars

\* Mutant: a file that exists is listed again.
AddToListAgain ==
    /\ filelist' = Append(filelist, Name)
    /\ list_size' = IF list_size = 0 THEN NameLength[Name]
                                     ELSE list_size + 1 + NameLength[Name]

AddToList ==
    IF Exists THEN UNCHANGED <<filelist, list_size>>
    ELSE /\ filelist' = Append(filelist, Name)
         /\ list_size' = IF list_size = 0 THEN NameLength[Name]
                                          ELSE list_size + 1 + NameLength[Name]

\* A new file is listed; the file is emptied before anything else is read.
PutBegin == /\ AddToList
            /\ disk' = [n \in DOMAIN disk \cup {Name} |-> IF n = Name THEN 0 ELSE disk[n]]
            /\ server' = "size" /\ UNCHANGED <<answer, cur_fd, size, bytes_rw>>

\* Mutant: the separator is forgotten.
SizeWithoutMissing == list_size - NameLength[Name]

SizeWithout == IF Len(filelist) = 1 THEN 0 ELSE list_size - (1 + NameLength[Name])

Delete ==
    \/ ~Exists /\ Respond("ERROR", 0, 0) /\ UNCHANGED storeVars
    \/ /\ Exists /\ Respond("OK", 0, 0)
       /\ disk' = [n \in DOMAIN disk \ {Name} |-> disk[n]]
       /\ filelist' = RemoveFirst(filelist, Name)
       /\ list_size' = SizeWithout

Verbs == {"GET", "PUT", "DELETE", "LIST"}

\* The bytes of a header with its separator and its newline.
HeaderLength(r) == IF r.verb = "LIST" THEN 5
                   ELSE NameLength[r.name] + (IF r.verb = "DELETE" THEN 8 ELSE 5)

\* No newline among the first 263 bytes, or none of the four verbs.
Refused(r) == r.verb \notin Verbs \/ HeaderLength(r) > 263

ReadHeader ==
    /\ server = "header"
    /\ \/ Unread(cur_fd) /\ Refused(request[cur_fd]) /\ handle_sigint
       \/ /\ MyRead /\ ~Refused(request[cur_fd])
          /\ \/ request[cur_fd].verb = "GET"    /\ Get
             \/ request[cur_fd].verb = "LIST"   /\ List
             \/ request[cur_fd].verb = "PUT"    /\ PutBegin
             \/ request[cur_fd].verb = "DELETE" /\ Delete
       \/ AtEnd(cur_fd) /\ handle_sigint
    /\ UNCHANGED <<clientVars, backlog, events>>

ReadSize ==
    /\ server = "size"
    /\ \/ /\ MyRead
          /\ size' = request[cur_fd].size /\ bytes_rw' = 0
          /\ server' = "data" /\ UNCHANGED <<answer, cur_fd, storeVars>>
       \/ AtEnd(cur_fd) /\ handle_sigint
    /\ UNCHANGED <<clientVars, backlog, events>>

ReadChunk ==
    /\ server = "data" /\ bytes_rw < size
    /\ \/ /\ MyRead
          /\ disk' = [disk EXCEPT ![Name] = @ + 1]
          /\ bytes_rw' = bytes_rw + 1
          /\ UNCHANGED <<server, answer, cur_fd, size>>
       \/ AtEnd(cur_fd) /\ Respond("ERROR", 0, 0) /\ UNCHANGED <<taken, disk>>
       \/ /\ Reset(cur_fd) /\ server' = "exited" /\ Done
          /\ UNCHANGED <<taken, answer, disk>>
    /\ UNCHANGED <<clientVars, backlog, events, filelist, list_size>>

\* Mutant: a connection that ends too late is the end of the server.
ReadTailOrEnd ==
    /\ server = "data" /\ bytes_rw = size
    /\ \/ Unread(cur_fd) /\ handle_sigint
       \/ AtEnd(cur_fd) /\ Respond("OK", 0, 0) /\ UNCHANGED <<taken, storeVars>>
    /\ UNCHANGED <<clientVars, backlog, events>>

\* All the data are there: the client must send no more.
ReadTail ==
    /\ server = "data" /\ bytes_rw = size
    /\ \/ MyRead /\ Respond("ERROR", 0, 0)
       \/ AtEnd(cur_fd) /\ Respond("OK", 0, 0) /\ UNCHANGED taken
       \/ Reset(cur_fd) /\ Respond("ERROR", 0, 0) /\ UNCHANGED taken
    /\ UNCHANGED <<clientVars, backlog, events, storeVars>>

-----------------------------------------------------------------------------
ServerStep == \/ epoll_wait \/ Accept \/ handle_client_request
              \/ ReadHeader \/ ReadSize \/ ReadChunk \/ ReadTail

ClientStep(c) == send_request(c) \/ send_fails(c) \/ Shutdown(c) \/ handle_response(c)

Next == \/ ServerStep
        \/ \E c \in Clients : Connect(c) \/ ClientStep(c) \/ BreakOff(c)

Spec == Init /\ [][Next]_vars

(* The server and each client take the steps they can take.                *)
FairSpec == Spec /\ WF_vars(ServerStep) /\ \A c \in Clients : WF_vars(ClientStep(c))

-----------------------------------------------------------------------------
(* The list that LIST sends is the directory: each file is listed once,    *)
(* list_size is the number of bytes sent, after any PUT, failed PUT and    *)
(* DELETE; and SIGINT leaves no file behind.                               *)
ListMatchesDisk ==
    /\ ~Down => /\ ToSet(filelist) = DOMAIN disk
                /\ Len(filelist) = Cardinality(DOMAIN disk)
                /\ list_size = ListBytes
    /\ server = "interrupted" => DOMAIN disk = {}

(* client.c and server.c understand each other.  While the server runs, a  *)
(* client finds no answer invalid, too short or too long, a PUT fails when *)
(* other than the announced data were sent and only then, and no client is *)
(* cut off in its request but one that sends too much.                     *)
AnswersFit ==
    [][\A c \in Clients : LET r == request[c] IN
         /\ handle_response(c) =>
              \/ Down
              \/ IF r.verb = "PUT" /\ r.size # r.sends
                 THEN Understood(r, answer[c]) = "error"
                 ELSE Understood(r, answer[c]) \in
                        {"success"} \cup IF r.verb \in {"PUT", "LIST"} THEN {} ELSE {"error"}
         /\ send_fails(c) => Down \/ r.sends > r.size]_vars

(* The server ends only by the client it serves: one that has broken off,  *)
(* or whose header has another verb or more than 263 bytes.  No other      *)
(* request, right or wrong, brings it down, and no client that waits.      *)
EndsByServedClient ==
    [][~Down /\ Down' =>
         /\ cur_fd \in Clients
         /\ \/ stage[cur_fd] = "gone"
            \/ request[cur_fd].verb \notin Verbs
            \/ HeaderLength(request[cur_fd]) > 263]_vars

(* Serving one client at a time starves nobody: each that connects comes   *)
(* to the end of its request, whatever the others send and wherever they   *)
(* break off, unless it breaks off itself.                                 *)
EveryClientAnswered ==
    \A c \in Clients : stage[c] # "idle" ~> stage[c] \in {"idle", "gone"}
=============================================================================

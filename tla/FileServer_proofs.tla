-------------------------- MODULE FileServer_proofs --------------------------
(***************************************************************************)
(* server.c and client.c for any number of clients, names and requests:    *)
(* the list is the directory, answers fit requests, and the server ends    *)
(* only by a client that breaks off or whose header it refuses.            *)
(***************************************************************************)
EXTENDS FileServer, FiniteSetTheorems, SequenceTheorems, TLAPS

Answers == [status : {"OK", "ERROR"}, size : Nat, body : Nat]

TypeOK == /\ stage \in [Clients -> {"idle", "sending", "waiting", "gone"}]
          /\ request \in [Clients -> Requests \cup {NULL}]
          /\ sent \in [Clients -> Nat] /\ taken \in [Clients -> Nat]
          /\ answer \in [Clients -> Answers \cup {NULL}]
          /\ server \in {"loop", "header", "size", "data", "interrupted", "exited"}
          /\ backlog \in Seq(Clients)
          /\ events \subseteq Clients \cup {"accept"}
          /\ cur_fd \in Clients \cup {NULL}
          /\ size \in Nat /\ bytes_rw \in Nat

StoreOK == /\ DOMAIN disk \subseteq Names
           /\ \A n \in DOMAIN disk : disk[n] \in Nat
           /\ filelist \in Seq(Names) /\ list_size \in Nat

\* A client that is there has asked for something; the server has read what
\* was sent, and no more.
Connections ==
    \A c \in Clients :
      IF stage[c] = "idle"
      THEN request[c] = NULL /\ answer[c] = NULL /\ sent[c] = 0 /\ taken[c] = 0
      ELSE /\ request[c] \in Requests
           /\ taken[c] <= sent[c] /\ sent[c] <= Length(request[c])
           /\ stage[c] = "waiting" => sent[c] = Length(request[c])

\* Whoever the server has not come to yet is unread and not answered.
Pending ==
    ~Down => /\ \A c \in events \cap Clients : Accepted(c) /\ c # cur_fd
             /\ "accept" \in events => backlog # <<>>
             /\ \A c \in Clients : answer[c] = NULL /\ c # cur_fd => taken[c] = 0
             /\ \A c \in Clients : c \in ToSet(backlog) => answer[c] = NULL

\* How far the request at hand was read.
Serving ==
    /\ server = "loop" => cur_fd = NULL
    /\ server \in {"header", "size", "data"} => cur_fd \in Clients /\ Accepted(cur_fd)
    /\ server = "header" => taken[cur_fd] = 0
    /\ server = "size" => taken[cur_fd] = 1 /\ request[cur_fd].verb = "PUT"
    /\ server = "data" => /\ taken[cur_fd] = 2 + bytes_rw /\ request[cur_fd].verb = "PUT"
                          /\ bytes_rw <= size /\ size = request[cur_fd].size

Fits(c, a) ==
    LET r == request[c]
    IN /\ r.verb \in Verbs
       /\ stage[c] = "sending" => sent[c] = Length(r) \/ r.sends > r.size
       /\ r.verb = "PUT" => (a.status = "OK" <=> r.size = r.sends)
       /\ r.verb \in {"GET", "LIST"} /\ a.status = "OK" => a.size = a.body
       /\ r.verb = "LIST" => a.status = "OK"

AnswersOK ==
    \A c \in Clients : answer[c] # NULL /\ stage[c] # "gone" => Fits(c, answer[c])

\* The list without the cardinalities.
Listed ==
    /\ ~Down => /\ \A i, j \in DOMAIN filelist : filelist[i] = filelist[j] => i = j
                /\ ToSet(filelist) = DOMAIN disk
                /\ list_size = ListBytes
    /\ server = "interrupted" => DOMAIN disk = {}

ServingOK == TypeOK /\ Connections /\ Pending /\ Serving /\ AnswersOK

StoredOK == StoreOK /\ Listed
-----------------------------------------------------------------------------
LEMMA RequestOK ==
    \A r \in Requests : /\ r.name \in Names /\ r.size \in Nat /\ r.sends \in Nat
                        /\ r # NULL /\ Length(r) \in Nat
                        /\ Length(r) = IF r.verb = "PUT" THEN 2 + r.sends ELSE 1
BY FileServerAssumption DEF Length

LEMMA RemoveFirstOK ==
    ASSUME NEW S, NEW s \in Seq(S), NEW e
    PROVE  /\ RemoveFirst(s, e) \in Seq(S)
           /\ e \notin ToSet(s) => RemoveFirst(s, e) = s
           /\ (\A i, j \in DOMAIN s : s[i] = s[j] => i = j) =>
                /\ ToSet(RemoveFirst(s, e)) = ToSet(s) \ {e}
                /\ \A i, j \in DOMAIN RemoveFirst(s, e) :
                     RemoveFirst(s, e)[i] = RemoveFirst(s, e)[j] => i = j
                /\ e \in ToSet(s) => Len(RemoveFirst(s, e)) = Len(s) - 1
<1>1. CASE e \notin ToSet(s)
  <2>1. RemoveFirst(s, e) = s
    BY <1>1 DEF RemoveFirst, ToSet
  <2> QED
    BY <1>1, <2>1
<1>2. CASE e \in ToSet(s)
  <2> DEFINE I == {i \in 1..Len(s) : s[i] = e}
  <2>1. I # {} /\ I \subseteq Nat
    BY <1>2 DEF ToSet
  <2>2. PICK m \in I : \A k \in I : m <= k
    <3>1. PICK x \in I : \A y \in I : ~(<<y, x>> \in OpToRel(<, Nat))
      BY <2>1, NatLessThanWellFounded, WFMin
    <3>2. ASSUME NEW y \in I, y < x PROVE FALSE
      <4>1. <<y, x>> \in OpToRel(<, Nat)
        BY <2>1, <3>2, Zenon DEF OpToRel
      <4> QED
        BY <3>1, <4>1
    <3> QED
      BY <2>1, <3>2
  <2>3. m = Min(I)
    BY <2>1, <2>2 DEF Min
  <2>4. RemoveFirst(s, e) = SubSeq(s, 1, m - 1) \o SubSeq(s, m + 1, Len(s))
    <3>1. \E i \in 1..Len(s) : s[i] = e
      BY <2>1
    <3>2. RemoveFirst(s, e) = RemoveAt(s, SelectInSeq(s, LAMBDA v : v = e))
      BY <3>1 DEF RemoveFirst
    <3>3. SelectInSeq(s, LAMBDA v : v = e) = m
      BY <2>1, <2>3 DEF SelectInSeq
    <3> QED
      BY <3>2, <3>3 DEF RemoveAt
  <2>5. m \in 1..Len(s) /\ s[m] = e
    OBVIOUS
  <2> DEFINE t == SubSeq(s, 1, m - 1) \o SubSeq(s, m + 1, Len(s))
  <2>6. /\ t \in Seq(S) /\ Len(t) = Len(s) - 1
        /\ \A i \in 1..Len(s) - 1 : t[i] = IF i < m THEN s[i] ELSE s[i + 1]
    <3> DEFINE a == SubSeq(s, 1, m - 1)
               b == SubSeq(s, m + 1, Len(s))
    <3>1. a \in Seq(S) /\ Len(a) = m - 1 /\ \A i \in 1..m - 1 : a[i] = s[i]
      BY <2>5
    <3>2. b \in Seq(S) /\ Len(b) = Len(s) - m /\ \A i \in 1..Len(s) - m : b[i] = s[i + m]
      BY <2>5
    <3> HIDE DEF a, b
    <3>3. /\ a \o b \in Seq(S) /\ Len(a \o b) = Len(a) + Len(b)
          /\ \A i \in 1..Len(a) + Len(b) :
               (a \o b)[i] = IF i <= Len(a) THEN a[i] ELSE b[i - Len(a)]
      BY <3>1, <3>2, ConcatProperties
    <3>4. m \in Nat \ {0} /\ Len(s) \in Nat /\ m <= Len(s)
      BY <2>5
    <3>5. Len(a) + Len(b) = Len(s) - 1
      BY <3>1, <3>2, <3>4
    <3>6. ASSUME NEW i \in 1..Len(s) - 1
          PROVE  (a \o b)[i] = IF i < m THEN s[i] ELSE s[i + 1]
      <4>1. CASE i < m
        BY <3>1, <3>3, <3>4, <3>5, <4>1
      <4>2. CASE ~(i < m)
        <5>1. i - Len(a) = i - m + 1 /\ i - m + 1 \in 1..Len(s) - m /\ (i - m + 1) + m = i + 1
          BY <3>1, <3>4, <4>2
        <5>2. (a \o b)[i] = b[i - m + 1]
          BY <3>1, <3>3, <3>4, <3>5, <4>2, <5>1
        <5> QED
          BY <3>2, <4>2, <5>1, <5>2
      <4> QED
        BY <4>1, <4>2
    <3> QED
      BY <3>3, <3>5, <3>6 DEF a, b
  <2> HIDE DEF t, I
  <2>7. ASSUME \A i, j \in DOMAIN s : s[i] = s[j] => i = j
        PROVE  /\ ToSet(t) = ToSet(s) \ {e}
               /\ \A i, j \in DOMAIN t : t[i] = t[j] => i = j
    <3>1. DOMAIN t = 1..Len(s) - 1 /\ DOMAIN s = 1..Len(s)
      BY <2>6
    <3>2. \A i, j \in DOMAIN t : t[i] = t[j] => i = j
      <4> SUFFICES ASSUME NEW i \in DOMAIN t, NEW j \in DOMAIN t, t[i] = t[j] PROVE i = j
        OBVIOUS
      <4> DEFINE x == IF i < m THEN i ELSE i + 1
                 y == IF j < m THEN j ELSE j + 1
      <4>1. x \in DOMAIN s /\ y \in DOMAIN s
        BY <2>5, <3>1
      <4>2. t[i] = s[x] /\ t[j] = s[y]
        BY <2>6, <3>1
      <4>3. x = y
        <5> HIDE DEF x, y
        <5> QED
          BY <2>7, <4>1, <4>2
      <4> QED
        BY <2>5, <3>1, <4>3
    <3>3. ASSUME NEW i \in DOMAIN t PROVE t[i] \in ToSet(s) \ {e}
      <4>1. PICK k \in DOMAIN s : t[i] = s[k] /\ k # m
        <5>1. CASE i < m
          BY <2>5, <2>6, <3>1, <5>1
        <5>2. CASE ~(i < m)
          <6>1. i + 1 \in DOMAIN s /\ t[i] = s[i + 1] /\ i + 1 # m
            BY <2>5, <2>6, <3>1, <5>2
          <6> QED
            BY <6>1
        <5> QED
          BY <5>1, <5>2
      <4>2. s[k] # e
        BY <2>5, <2>7, <3>1, <4>1
      <4> QED
        BY <4>1, <4>2 DEF ToSet
    <3>4. ASSUME NEW i \in DOMAIN s, s[i] # e PROVE \E j \in DOMAIN t : t[j] = s[i]
      <4>1. CASE i < m
        BY <2>5, <2>6, <3>1, <4>1
      <4>2. CASE i > m
        <5>1. i - 1 \in DOMAIN t /\ t[i - 1] = s[(i - 1) + 1]
          BY <2>5, <2>6, <3>1, <4>2
        <5> QED
          BY <3>1, <5>1
      <4> QED
        BY <2>5, <3>1, <3>4, <4>1, <4>2
    <3> QED
      BY <3>2, <3>3, <3>4 DEF ToSet
  <2>8. RemoveFirst(s, e) = t
    BY <2>4 DEF t
  <2> QED
    BY <1>2, <2>6, <2>7, <2>8
<1> QED
  BY <1>1, <1>2

(* The steps of a client.                                                  *)
LEMMA ConnectOK ==
    ASSUME ServingOK, NEW c \in Clients, Connect(c)
    PROVE  ServingOK'
<1> USE DEF ServingOK
<1>1. PICK r \in Requests : request' = [request EXCEPT ![c] = r]
  BY DEF Connect
<1>2. /\ stage[c] = "idle" /\ ~Down /\ stage' = [stage EXCEPT ![c] = "sending"]
      /\ backlog' = Append(backlog, c)
      /\ UNCHANGED <<sent, taken, answer, server, events, cur_fd, size, bytes_rw>>
  BY DEF Connect
<1>3. /\ \A d \in Clients : /\ stage'[d] = IF d = c THEN "sending" ELSE stage[d]
                            /\ request'[d] = IF d = c THEN r ELSE request[d]
      /\ backlog' \in Seq(Clients) /\ ToSet(backlog') = ToSet(backlog) \cup {c}
      /\ backlog' # <<>>
  <2>1. backlog \in Seq(Clients)
    BY DEF TypeOK
  <2>2. /\ backlog' \in Seq(Clients) /\ Len(backlog') = Len(backlog) + 1 /\ Len(backlog) \in Nat
        /\ backlog'[Len(backlog) + 1] = c
        /\ \A i \in 1..Len(backlog) : backlog'[i] = backlog[i]
    BY <1>2, <2>1
  <2>3. DOMAIN backlog' = (DOMAIN backlog) \cup {Len(backlog) + 1} /\ backlog' # <<>>
    BY <2>1, <2>2
  <2>4. ToSet(backlog') = ToSet(backlog) \cup {c}
    BY <2>1, <2>2, <2>3 DEF ToSet
  <2> QED
    BY <1>1, <1>2, <2>2, <2>3, <2>4 DEF TypeOK
<1>4. /\ request[c] = NULL /\ answer[c] = NULL /\ sent[c] = 0 /\ taken[c] = 0
      /\ c \notin events /\ c # cur_fd
  BY <1>2, FileServerAssumption DEF Connections, Pending, Serving, Accepted, TypeOK, Down
<1>5. TypeOK'
  BY <1>1, <1>2, <1>3 DEF TypeOK
<1>6. Connections'
  <2>1. /\ request'[c] = r /\ stage'[c] = "sending" /\ sent'[c] = 0 /\ taken'[c] = 0
        /\ Length(r) \in Nat
    BY <1>2, <1>3, <1>4, RequestOK
  <2>2. \A d \in Clients \ {c} :
          /\ stage'[d] = stage[d] /\ request'[d] = request[d] /\ answer'[d] = answer[d]
          /\ sent'[d] = sent[d] /\ taken'[d] = taken[d]
    BY <1>2, <1>3
  <2> QED
    BY <2>1, <2>2 DEF Connections
<1>7. Pending'
  BY <1>2, <1>3, <1>4 DEF Pending, Down, Accepted
<1>8. Serving'
  BY <1>2, <1>3, <1>4 DEF Serving, Accepted
<1>9. AnswersOK'
  BY <1>2, <1>3, <1>4 DEF AnswersOK, Fits
<1> QED
  BY <1>5, <1>6, <1>7, <1>8, <1>9

LEMMA LeaveOK ==
    ASSUME ServingOK, NEW c \in Clients, stage[c] \in {"sending", "waiting"}, Closed(c), Leave(c)
    PROVE  ServingOK'
<1> USE DEF ServingOK
<1>1. /\ \A d \in Clients : /\ stage'[d] = IF d = c THEN "idle" ELSE stage[d]
                            /\ request'[d] = IF d = c THEN NULL ELSE request[d]
                            /\ sent'[d] = IF d = c THEN 0 ELSE sent[d]
                            /\ taken'[d] = IF d = c THEN 0 ELSE taken[d]
                            /\ answer'[d] = IF d = c THEN NULL ELSE answer[d]
      /\ UNCHANGED <<server, events, cur_fd, size, bytes_rw>>
  BY DEF Leave, TypeOK
<1>2. backlog' \in Seq(Clients) /\ (c \notin ToSet(backlog) => backlog' = backlog)
  BY RemoveFirstOK DEF Leave, TypeOK
<1>3. TypeOK'
  BY <1>1, <1>2 DEF TypeOK, Leave
<1>4. Connections'
  BY <1>1, <1>2 DEF Connections
<1>5. ASSUME ~Down PROVE answer[c] # NULL /\ c \notin ToSet(backlog) /\ c \notin events /\ c # cur_fd
  <2>1. answer[c] # NULL
    BY <1>5 DEF Closed
  <2>2. c \notin ToSet(backlog) /\ c \notin events
    BY <1>5, <2>1 DEF Pending, Accepted
  <2>3. c # cur_fd
    BY <1>5, <2>1, FileServerAssumption DEF Serving, Accepted, TypeOK, Down
  <2> QED
    BY <2>1, <2>2, <2>3
<1>6. Pending' /\ Serving'
  <2>1. Down' = Down
    BY <1>1 DEF Down
  <2>2. CASE Down
    BY <2>1, <2>2, <1>1 DEF Pending, Serving, Down
  <2>3. CASE ~Down
    <3>1. /\ backlog' = backlog /\ c \notin ToSet(backlog) /\ c \notin events /\ c # cur_fd
          /\ ~Accepted(c) /\ ~Accepted(c)'
      BY <1>1, <1>2, <1>5, <2>3 DEF Accepted
    <3>2. \A d \in Clients : d # c => /\ Accepted(d)' <=> Accepted(d)
                                      /\ answer'[d] = answer[d] /\ taken'[d] = taken[d]
                                      /\ request'[d] = request[d]
      BY <1>1, <3>1 DEF Accepted
    <3>3. taken'[c] = 0
      BY <1>1
    <3>4. Pending'
      BY <1>1, <2>1, <2>3, <3>1, <3>2, <3>3 DEF Pending
    <3>5. Serving'
      BY <1>1, <2>3, <3>1, <3>2 DEF Serving
    <3> QED
      BY <3>4, <3>5
  <2> QED
    BY <2>2, <2>3
<1>7. AnswersOK'
  BY <1>1 DEF AnswersOK, Fits
<1> QED
  BY <1>3, <1>4, <1>6, <1>7

LEMMA ClientOK ==
    ASSUME ServingOK, NEW c \in Clients, ClientStep(c) \/ BreakOff(c)
    PROVE  ServingOK'
<1> USE DEF ServingOK
<1>1. CASE send_fails(c) \/ handle_response(c)
  BY <1>1, LeaveOK DEF send_fails, handle_response
<1>2. CASE send_request(c)
  <2>1. /\ stage[c] = "sending" /\ sent[c] < Length(request[c]) /\ ~Closed(c)
        /\ \A d \in Clients : sent'[d] = IF d = c THEN sent[d] + 1 ELSE sent[d]
        /\ UNCHANGED <<stage, request, taken, answer, loopVars, size, bytes_rw>>
    BY <1>2 DEF send_request, TypeOK
  <2>2. TypeOK'
    BY <1>2 DEF send_request, TypeOK, loopVars
  <2>3. Connections'
    BY <2>1, RequestOK DEF Connections, TypeOK, loopVars
  <2>4. Pending' /\ Serving'
    BY <2>1 DEF Pending, Serving, Down, Accepted, loopVars
  <2>5. AnswersOK'
    BY <2>1 DEF AnswersOK, Fits, Closed
  <2> QED
    BY <2>2, <2>3, <2>4, <2>5
<1>3. CASE Shutdown(c) \/ BreakOff(c)
  <2>1. PICK new \in {"waiting", "gone"} :
          /\ stage' = [stage EXCEPT ![c] = new]
          /\ new = "waiting" => sent[c] = Length(request[c])
    BY <1>3 DEF Shutdown, BreakOff
  <2>2. /\ stage[c] \in {"sending", "waiting"}
        /\ UNCHANGED <<request, sent, taken, answer, loopVars, size, bytes_rw>>
    BY <1>3 DEF Shutdown, BreakOff
  <2>3. \A d \in Clients : stage'[d] = IF d = c THEN new ELSE stage[d]
    BY <2>1 DEF TypeOK
  <2>4. TypeOK'
    BY <2>1, <2>2 DEF TypeOK, loopVars
  <2>5. Connections'
    BY <2>1, <2>2, <2>3 DEF Connections, loopVars
  <2>6. Pending' /\ Serving'
    BY <2>2 DEF Pending, Serving, Down, Accepted, loopVars
  <2>7. AnswersOK'
    BY <2>1, <2>2, <2>3 DEF AnswersOK, Fits
  <2> QED
    BY <2>4, <2>5, <2>6, <2>7
<1> QED
  BY <1>1, <1>2, <1>3 DEF ClientStep

(* The steps of the server between two requests.                           *)
LEMMA LoopOK ==
    ASSUME ServingOK, epoll_wait \/ Accept \/ handle_client_request
    PROVE  ServingOK'
<1> USE DEF ServingOK
<1>1. server = "loop" /\ cur_fd = NULL /\ UNCHANGED <<clientVars, taken, answer, size, bytes_rw>>
  BY DEF epoll_wait, Accept, handle_client_request, Serving
<1>2. CASE epoll_wait
  <2>1. /\ \A d \in events' : \/ d = "accept" /\ backlog # <<>>
                              \/ d \in Clients /\ Accepted(d)
        /\ UNCHANGED <<server, backlog, cur_fd>>
    BY <1>2 DEF epoll_wait
  <2>2. TypeOK'
    BY <1>1, <2>1 DEF TypeOK, clientVars
  <2>3. Connections' /\ Serving'
    BY <1>1, <2>1 DEF Connections, Serving, clientVars
  <2>4. Pending'
    BY <1>1, <2>1, FileServerAssumption DEF Pending, Down, Accepted, clientVars
  <2>5. AnswersOK'
    BY <1>1, <2>1 DEF AnswersOK, Fits, clientVars
  <2> QED
    BY <2>2, <2>3, <2>4, <2>5
<1>3. CASE Accept
  <2>1. /\ "accept" \in events /\ events' = events \ {"accept"} /\ backlog' = Tail(backlog)
        /\ UNCHANGED <<server, cur_fd>>
    BY <1>3 DEF Accept
  <2>2. backlog # <<>> /\ backlog \in Seq(Clients)
    BY <1>1, <2>1 DEF Pending, Down, TypeOK
  <2>3. backlog' \in Seq(Clients) /\ ToSet(backlog') \subseteq ToSet(backlog)
    BY <2>1, <2>2 DEF ToSet
  <2>4. TypeOK'
    BY <1>1, <2>1, <2>3 DEF TypeOK, clientVars
  <2>5. Connections' /\ Serving'
    BY <1>1, <2>1, <2>3 DEF Connections, Serving, clientVars
  <2>6. Pending'
    BY <1>1, <2>1, <2>3, FileServerAssumption DEF Pending, Down, Accepted, clientVars
  <2>7. AnswersOK'
    BY <1>1, <2>1 DEF AnswersOK, Fits, clientVars
  <2> QED
    BY <2>4, <2>5, <2>6, <2>7
<1>4. CASE handle_client_request
  <2>1. PICK c \in events \cap Clients : events' = events \ {c} /\ cur_fd' = c /\ server' = "header"
    BY <1>4 DEF handle_client_request
  <2>2. UNCHANGED backlog
    BY <1>4 DEF handle_client_request
  <2>3. Accepted(c) /\ taken[c] = 0
    BY <1>1 DEF Pending, Down, Accepted, TypeOK
  <2>4. TypeOK'
    BY <1>1, <2>1, <2>2 DEF TypeOK, clientVars
  <2>5. Connections'
    BY <1>1, <2>2 DEF Connections, clientVars
  <2>6. Serving'
    BY <1>1, <2>1, <2>2, <2>3 DEF Serving, Accepted, clientVars
  <2>7. Pending'
    BY <1>1, <2>1, <2>2, <2>3, FileServerAssumption DEF Pending, Down, Accepted, clientVars
  <2>8. AnswersOK'
    BY <1>1, <2>1 DEF AnswersOK, Fits, clientVars
  <2> QED
    BY <2>4, <2>5, <2>6, <2>7, <2>8
<1> QED
  BY <1>2, <1>3, <1>4

-----------------------------------------------------------------------------
(* What a step for the client that is served leaves alone.                 *)
LEMMA ServedOK ==
    ASSUME ServingOK, server \in {"header", "size", "data"}
    PROVE  /\ cur_fd \in Clients /\ stage[cur_fd] # "idle" /\ request[cur_fd] \in Requests
           /\ answer[cur_fd] = NULL /\ taken[cur_fd] \in Nat /\ sent[cur_fd] \in Nat
           /\ taken[cur_fd] <= sent[cur_fd] /\ sent[cur_fd] <= Length(request[cur_fd])
           /\ stage[cur_fd] = "waiting" => sent[cur_fd] = Length(request[cur_fd])
<1>1. cur_fd \in Clients /\ request[cur_fd] # NULL /\ answer[cur_fd] = NULL
  BY DEF ServingOK, Serving, Accepted
<1>2. stage[cur_fd] # "idle"
  BY <1>1 DEF ServingOK, Connections
<1> QED
  BY <1>1, <1>2 DEF ServingOK, Connections, TypeOK

(* A request comes to its end with answer a.                               *)
LEMMA AnsweredOK ==
    ASSUME ServingOK, server \in {"header", "size", "data"},
           UNCHANGED <<clientVars, backlog, events>>,
           NEW t \in Nat, t <= sent[cur_fd], taken' = [taken EXCEPT ![cur_fd] = t],
           NEW a \in Answers, Done,
           \/ answer' = [answer EXCEPT ![cur_fd] = a] /\ server' = "loop"
           \/ stage[cur_fd] = "gone" /\ server' = "exited" /\ UNCHANGED answer,
           stage[cur_fd] # "gone" => Fits(cur_fd, a)
    PROVE  ServingOK'
<1> USE DEF ServingOK
<1>1. PICK c \in Clients : c = cur_fd
  BY ServedOK
<1>2. /\ stage[c] # "idle" /\ request[c] \in Requests /\ answer[c] = NULL
      /\ a # NULL
  BY <1>1, ServedOK, FileServerAssumption DEF Answers
<1>3. /\ UNCHANGED <<stage, request, sent>> /\ cur_fd' = NULL /\ size' = 0 /\ bytes_rw' = 0
      /\ \A d \in Clients : taken'[d] = IF d = c THEN t ELSE taken[d]
  BY <1>1 DEF clientVars, Done, TypeOK
<1>4. \A d \in Clients : answer'[d] = answer[d] \/ (d = c /\ answer'[d] = a)
  BY <1>1 DEF TypeOK
<1>5. server' \in {"loop", "exited"} /\ (server' = "exited" => stage[c] = "gone")
  BY <1>1
<1>6. server' = "loop" => answer'[c] = a
  BY <1>1 DEF TypeOK
<1>7. TypeOK'
  <2>1. answer' \in [Clients -> Answers \cup {NULL}]
    <3>1. answer \in [Clients -> Answers \cup {NULL}]
      BY DEF TypeOK
    <3>2. [answer EXCEPT ![c] = a] \in [Clients -> Answers \cup {NULL}]
      BY <3>1
    <3> QED
      BY <1>1, <3>1, <3>2
  <2>2. taken' \in [Clients -> Nat] /\ cur_fd' \in Clients \cup {NULL}
    BY <1>3 DEF TypeOK
  <2>3. UNCHANGED <<stage, request, sent, backlog, events>> /\ size' \in Nat /\ bytes_rw' \in Nat
    BY <1>3
  <2> QED
    BY <1>5, <2>1, <2>2, <2>3 DEF TypeOK
<1>8. Connections'
  BY <1>1, <1>2, <1>3, <1>4 DEF Connections
<1>9. Pending'
  <2> SUFFICES ASSUME server' = "loop" PROVE Pending'
    BY <1>5 DEF Pending, Down
  <2>1. ~Down /\ ~Down'
    BY DEF Down
  <2>2. ASSUME NEW d \in events \cap Clients PROVE Accepted(d)' /\ d # cur_fd'
    <3>1. Accepted(d) /\ d # c
      BY <1>1, <2>1 DEF Pending
    <3> QED
      BY <1>3, <1>4, <3>1, FileServerAssumption DEF Accepted
  <2>3. \A d \in Clients : answer'[d] = NULL => d # c /\ taken'[d] = 0
    BY <1>1, <1>2, <1>3, <1>4, <1>6, <2>1 DEF Pending
  <2>4. \A d \in Clients : d \in ToSet(backlog) => d # c /\ answer'[d] = NULL
    BY <1>1, <1>4, <2>1 DEF Pending, Serving, Accepted
  <2> QED
    BY <1>3, <2>1, <2>2, <2>3, <2>4 DEF Pending
<1>10. Serving'
  BY <1>3, <1>5 DEF Serving
<1>11. AnswersOK'
  <2> SUFFICES ASSUME NEW d \in Clients, answer'[d] # NULL, stage[d] # "gone"
               PROVE  Fits(d, answer'[d])
    BY <1>3 DEF AnswersOK, Fits
  <2> QED
    BY <1>1, <1>4 DEF AnswersOK
<1> QED
  BY <1>7, <1>8, <1>9, <1>10, <1>11

(* The server sends itself SIGINT.                                         *)
LEMMA InterruptedOK ==
    ASSUME ServingOK, handle_sigint, UNCHANGED <<clientVars, backlog, events>>
    PROVE  ServingOK'
<1> USE DEF ServingOK
<1>1. /\ UNCHANGED <<stage, request, sent, taken, answer, backlog, events>>
      /\ cur_fd' = NULL /\ size' = 0 /\ bytes_rw' = 0 /\ server' = "interrupted"
  BY DEF handle_sigint, Done, clientVars
<1>2. TypeOK' /\ Connections' /\ Pending' /\ Serving'
  BY <1>1 DEF TypeOK, Connections, Pending, Serving, Down
<1>3. AnswersOK'
  BY <1>1 DEF AnswersOK, Fits
<1> QED
  BY <1>2, <1>3

(* The request goes on.                                                    *)
LEMMA ReadOnOK ==
    ASSUME ServingOK, server \in {"header", "size", "data"}, MyRead,
           UNCHANGED <<clientVars, answer, backlog, events, cur_fd>>,
           request[cur_fd].verb = "PUT",
           \/ server = "header" /\ server' = "size" /\ UNCHANGED <<size, bytes_rw>>
           \/ /\ server = "size" /\ server' = "data"
              /\ size' = request[cur_fd].size /\ bytes_rw' = 0
           \/ /\ server = "data" /\ server' = "data" /\ bytes_rw < size
              /\ UNCHANGED size /\ bytes_rw' = bytes_rw + 1
    PROVE  ServingOK'
<1> USE DEF ServingOK
<1>1. PICK c \in Clients : c = cur_fd
  BY ServedOK
<1>2. /\ request[c] \in Requests /\ answer[c] = NULL /\ taken[c] < sent[c]
      /\ taken[c] \in Nat /\ sent[c] \in Nat /\ stage[c] # "idle"
  BY <1>1, ServedOK DEF MyRead, Unread
<1>3. /\ UNCHANGED <<stage, request, sent>>
      /\ taken' = [taken EXCEPT ![c] = taken[c] + 1]
      /\ \A d \in Clients : taken'[d] = IF d = c THEN taken[c] + 1 ELSE taken[d]
  BY <1>1 DEF clientVars, MyRead, TypeOK
<1>4. request[c].size \in Nat
  BY <1>2, RequestOK
<1>5. TypeOK'
  BY <1>1, <1>2, <1>3, <1>4 DEF TypeOK
<1>6. Connections'
  BY <1>2, <1>3 DEF Connections
<1>7. ~Down /\ ~Down'
  BY DEF Down
<1>8. Pending'
  BY <1>1, <1>3, <1>7 DEF Pending, Accepted
<1>9. Serving'
  <2>1. Accepted(cur_fd)
    BY DEF Serving
  <2> QED
    BY <1>1, <1>2, <1>3, <1>4, <2>1 DEF Serving, Accepted, TypeOK
<1>10. AnswersOK'
  BY <1>3 DEF AnswersOK, Fits
<1> QED
  BY <1>5, <1>6, <1>8, <1>9, <1>10

(* The header: GET, LIST and DELETE are answered, PUT goes on.             *)
LEMMA ReadHeaderOK ==
    ASSUME ServingOK, StoredOK, ReadHeader
    PROVE  ServingOK'
<1> USE DEF ServingOK
<1>1. server = "header" /\ UNCHANGED <<clientVars, backlog, events>>
  BY DEF ReadHeader
<1>2. PICK c \in Clients : c = cur_fd
  BY <1>1, ServedOK
<1>3. /\ request[c] \in Requests /\ taken[c] = 0 /\ sent[c] \in Nat
      /\ sent[c] <= Length(request[c])
  BY <1>1, <1>2, ServedOK DEF Serving
<1>4. CASE handle_sigint
  BY <1>1, <1>4, InterruptedOK
<1>5. CASE MyRead /\ request[c].verb = "PUT" /\ PutBegin
  BY <1>1, <1>2, <1>5, ReadOnOK DEF PutBegin
<1>6. ASSUME MyRead, request[c].verb \in Verbs \ {"PUT"},
             NEW status \in {"OK", "ERROR"}, NEW n \in Nat, NEW m \in Nat, Respond(status, n, m),
             request[c].verb \in {"GET", "LIST"} => n = m,
             request[c].verb = "LIST" => status = "OK"
      PROVE  ServingOK'
  <2>1. PICK a \in Answers : a = [status |-> status, size |-> n, body |-> m]
    BY DEF Answers
  <2>2. /\ Done
        /\ \/ answer' = [answer EXCEPT ![cur_fd] = a] /\ server' = "loop"
           \/ stage[cur_fd] = "gone" /\ server' = "exited" /\ UNCHANGED answer
    BY <1>6, <2>1 DEF Respond
  <2>3. PICK t \in Nat : /\ t <= sent[cur_fd] /\ taken' = [taken EXCEPT ![cur_fd] = t]
                         /\ sent[c] = 1
    <3>1. Length(request[c]) = 1
      BY <1>3, <1>6, RequestOK
    <3>2. taken[c] < sent[c] /\ taken' = [taken EXCEPT ![c] = taken[c] + 1]
      BY <1>2, <1>6 DEF MyRead, Unread
    <3>3. PICK t \in Nat : t = taken[c] + 1 /\ t <= sent[c]
      BY <1>3, <3>2
    <3>4. sent[c] = 1
      BY <1>3, <3>1, <3>2
    <3> QED
      BY <1>2, <3>2, <3>3, <3>4
  <2>4. Fits(cur_fd, a)
    BY <1>2, <1>3, <1>6, <2>1, <2>3, RequestOK DEF Fits
  <2> QED
    BY <1>1, <2>2, <2>3, <2>4, AnsweredOK
<1>7. Exists => disk[Name] \in Nat
  BY DEF StoredOK, StoreOK, Exists
<1>8. CASE MyRead /\ request[c].verb = "GET" /\ Get
  BY <1>6, <1>7, <1>8 DEF Get, Verbs
<1>9. CASE MyRead /\ request[c].verb = "LIST" /\ List
  <2>1. list_size \in Nat /\ list_size = ListBytes
    BY <1>1 DEF StoredOK, StoreOK, Listed, Down
  <2> QED
    BY <1>6, <1>9, <2>1 DEF List, Verbs
<1>10. CASE MyRead /\ request[c].verb = "DELETE" /\ Delete
  BY <1>6, <1>10 DEF Delete, Verbs
<1> QED
  BY <1>2, <1>4, <1>5, <1>8, <1>9, <1>10 DEF ReadHeader

(* The size of a PUT, its chunks, and what comes after them.               *)
LEMMA ReadPutOK ==
    ASSUME ServingOK, ReadSize \/ ReadChunk \/ ReadTail
    PROVE  ServingOK'
<1> USE DEF ServingOK
<1>1. server \in {"size", "data"} /\ UNCHANGED <<clientVars, backlog, events>>
  BY DEF ReadSize, ReadChunk, ReadTail
<1>2. PICK c \in Clients, r \in Requests : c = cur_fd /\ r = request[c]
  BY <1>1, ServedOK
<1>3. /\ taken[c] \in Nat /\ sent[c] \in Nat /\ taken[c] <= sent[c] /\ sent[c] <= 2 + r.sends
      /\ stage[c] = "waiting" => sent[c] = 2 + r.sends
      /\ r.verb = "PUT" /\ r.size \in Nat /\ r.sends \in Nat /\ Length(r) = 2 + r.sends
      /\ stage[c] # "idle" /\ stage[c] \in {"idle", "sending", "waiting", "gone"}
  BY <1>1, <1>2, ServedOK, RequestOK DEF Serving, TypeOK
<1>4. server = "data" => /\ taken[c] = 2 + bytes_rw /\ bytes_rw <= r.size /\ size = r.size
                         /\ bytes_rw \in Nat
  BY <1>2 DEF Serving, TypeOK
<1>5. CASE ReadSize
  BY <1>1, <1>2, <1>3, <1>5, InterruptedOK, ReadOnOK DEF ReadSize
<1>6. CASE server = "data" /\ bytes_rw < size /\ MyRead /\ UNCHANGED <<server, answer, cur_fd, size>>
           /\ bytes_rw' = bytes_rw + 1
  BY <1>1, <1>2, <1>3, <1>6, ReadOnOK
<1>7. taken = [taken EXCEPT ![c] = taken[c]]
  BY DEF TypeOK
<1>8. ASSUME server = "data",
             NEW t \in Nat, t <= sent[c], taken' = [taken EXCEPT ![c] = t],
             NEW status \in {"OK", "ERROR"}, Respond(status, 0, 0),
             stage[c] = "sending" => r.sends > r.size,
             stage[c] # "gone" => (status = "OK" <=> r.size = r.sends)
      PROVE  ServingOK'
  <2>1. PICK a \in Answers : a = [status |-> status, size |-> 0, body |-> 0]
    BY DEF Answers
  <2>2. /\ Done
        /\ \/ answer' = [answer EXCEPT ![cur_fd] = a] /\ server' = "loop"
           \/ stage[cur_fd] = "gone" /\ server' = "exited" /\ UNCHANGED answer
    BY <1>8, <2>1 DEF Respond
  <2>3. stage[cur_fd] # "gone" => Fits(cur_fd, a)
    BY <1>2, <1>3, <1>8, <2>1 DEF Fits, Verbs
  <2> QED
    BY <1>1, <1>2, <1>8, <2>2, <2>3, AnsweredOK
<1>9. CASE ReadChunk
  <2>1. server = "data" /\ bytes_rw < size
    BY <1>9 DEF ReadChunk
  <2>2. CASE AtEnd(cur_fd) /\ Respond("ERROR", 0, 0) /\ UNCHANGED taken
    <3>1. sent[c] = taken[c] /\ stage[c] \in {"waiting", "gone"}
      BY <1>2, <1>3, <2>2 DEF AtEnd, Unread
    <3>2. stage[c] # "gone" => r.size # r.sends
      BY <1>3, <1>4, <2>1, <3>1
    <3> QED
      BY <1>3, <1>7, <1>8, <2>1, <2>2, <3>1, <3>2
  <2>3. CASE Reset(cur_fd) /\ server' = "exited" /\ Done /\ UNCHANGED <<taken, answer>>
    <3>1. stage[cur_fd] = "gone"
      BY <2>3 DEF Reset
    <3>2. PICK a \in Answers : TRUE
      <4>1. [status |-> "OK", size |-> 0, body |-> 0] \in Answers
        BY DEF Answers
      <4> QED
        BY <4>1
    <3> QED
      BY <1>1, <1>2, <1>3, <1>7, <2>3, <3>1, AnsweredOK
  <2> QED
    BY <1>6, <1>9, <2>2, <2>3 DEF ReadChunk
<1>10. CASE ReadTail
  <2>1. server = "data" /\ bytes_rw = size
    BY <1>10 DEF ReadTail
  <2>2. CASE MyRead /\ Respond("ERROR", 0, 0)
    <3>1. taken[c] < sent[c] /\ taken' = [taken EXCEPT ![c] = taken[c] + 1]
      BY <1>2, <2>2 DEF MyRead, Unread
    <3>2. r.sends > r.size
      BY <1>3, <1>4, <2>1, <3>1
    <3>3. PICK t \in Nat : t = taken[c] + 1 /\ t <= sent[c]
      BY <1>3, <3>1
    <3>4. ("ERROR" = "OK") <=> r.size = r.sends
      BY <1>3, <3>2
    <3> QED
      BY <1>8, <2>1, <2>2, <3>1, <3>2, <3>3, <3>4
  <2>3. CASE AtEnd(cur_fd) /\ Respond("OK", 0, 0) /\ UNCHANGED taken
    <3>1. sent[c] = taken[c] /\ stage[c] \in {"waiting", "gone"}
      BY <1>2, <1>3, <2>3 DEF AtEnd, Unread
    <3>2. stage[c] # "gone" => r.size = r.sends
      BY <1>3, <1>4, <2>1, <3>1
    <3> QED
      BY <1>3, <1>7, <1>8, <2>1, <2>3, <3>1, <3>2
  <2>4. CASE Reset(cur_fd) /\ Respond("ERROR", 0, 0) /\ UNCHANGED taken
    <3>1. stage[c] = "gone"
      BY <1>2, <2>4 DEF Reset
    <3> QED
      BY <1>3, <1>7, <1>8, <2>1, <2>4, <3>1
  <2> QED
    BY <1>10, <2>2, <2>3, <2>4 DEF ReadTail
<1> QED
  BY <1>5, <1>9, <1>10

-----------------------------------------------------------------------------
(* The bytes of the names in a list, and those of a set of names.          *)
BytesOf(s) == UNION {{i} \X (1..NameLength[s[i]]) : i \in DOMAIN s}

BytesIn(N) == UNION {{n} \X (1..NameLength[n]) : n \in N}

LEMMA OneName ==
    ASSUME NEW n \in Names
    PROVE  /\ IsFiniteSet({n} \X (1..NameLength[n]))
           /\ Cardinality({n} \X (1..NameLength[n])) = NameLength[n]
           /\ NameLength[n] \in Nat \ {0}
<1>1. NameLength[n] \in Nat \ {0}
  BY FileServerAssumption
<1>2. IsFiniteSet(1..NameLength[n]) /\ Cardinality(1..NameLength[n]) = NameLength[n]
  <2>1. PICK k \in Nat : k = NameLength[n] /\ k # 0
    BY <1>1
  <2>2. 1 \in Int /\ k \in Int /\ ~(1 > k) /\ k - 1 + 1 = k
    BY <2>1
  <2>3. IsFiniteSet(1..k) /\ Cardinality(1..k) = k
    BY ONLY <2>2, FS_Interval
  <2> QED
    BY <2>1, <2>3, Zenon
<1>3. IsFiniteSet({n}) /\ Cardinality({n}) = 1
  BY FS_Singleton
<1>4. /\ IsFiniteSet({n} \X (1..NameLength[n]))
      /\ Cardinality({n} \X (1..NameLength[n])) = 1 * NameLength[n]
  <2>1. /\ IsFiniteSet({n} \X (1..NameLength[n]))
        /\ Cardinality({n} \X (1..NameLength[n])) = Cardinality({n}) * Cardinality(1..NameLength[n])
    BY <1>2, <1>3, FS_Product, Zenon
  <2> QED
    BY <1>2, <1>3, <2>1, Zenon
<1> QED
  BY <1>1, <1>4

LEMMA BytesInFinite ==
    ASSUME NEW N, IsFiniteSet(N), N \subseteq Names
    PROVE  IsFiniteSet(BytesIn(N))
<1> DEFINE S == {{n} \X (1..NameLength[n]) : n \in N}
           f == [n \in N |-> {n} \X (1..NameLength[n])]
<1>1. f \in Surjection(N, S)
  BY DEF Surjection
<1>2. IsFiniteSet(S)
  <2> HIDE DEF f, S
  <2> QED
    BY <1>1, FS_Surjection
<1>3. \A T \in S : IsFiniteSet(T)
  BY OneName
<1> HIDE DEF S
<1>4. IsFiniteSet(UNION S)
  BY <1>2, <1>3, FS_UNION
<1> QED
  BY <1>4 DEF S, BytesIn

LEMMA BytesInMore ==
    ASSUME NEW N, IsFiniteSet(N), N \subseteq Names, NEW n \in Names \ N
    PROVE  /\ Cardinality(BytesIn(N)) \in Nat
           /\ Cardinality(BytesIn(N \cup {n})) = Cardinality(BytesIn(N)) + NameLength[n]
<1> DEFINE M == {n} \X (1..NameLength[n])
<1>1. BytesIn(N \cup {n}) = BytesIn(N) \cup M
  BY DEF BytesIn
<1>2. BytesIn(N) \cap M = {}
  BY DEF BytesIn
<1>3. IsFiniteSet(M) /\ Cardinality(M) = NameLength[n] /\ NameLength[n] \in Nat
  BY OneName
<1>4. IsFiniteSet(BytesIn(N)) /\ Cardinality(BytesIn(N)) \in Nat
  BY BytesInFinite, FS_CardinalityType
<1>5. Cardinality({}) = 0
  BY FS_EmptySet
<1> HIDE DEF M
<1>6. Cardinality(BytesIn(N) \cup M) =
        Cardinality(BytesIn(N)) + Cardinality(M) - Cardinality(BytesIn(N) \cap M)
  BY <1>3, <1>4, FS_Union
<1>7. Cardinality(BytesIn(N) \cap M) = 0
  BY <1>2, <1>5
<1>8. Cardinality(BytesIn(N) \cup M) = Cardinality(BytesIn(N)) + NameLength[n]
  BY <1>3, <1>4, <1>6, <1>7
<1> QED
  BY <1>1, <1>4, <1>8

(* In a list without duplicates each name has its bytes once.              *)
LEMMA BytesOfSet ==
    ASSUME NEW s \in Seq(Names), \A i, j \in DOMAIN s : s[i] = s[j] => i = j
    PROVE  /\ IsFiniteSet(ToSet(s)) /\ Cardinality(ToSet(s)) = Len(s)
           /\ Cardinality(BytesOf(s)) = Cardinality(BytesIn(ToSet(s)))
<1>1. Len(s) \in Nat /\ DOMAIN s = 1..Len(s) /\ s \in [DOMAIN s -> ToSet(s)]
      /\ \A i \in DOMAIN s : s[i] \in Names
  BY DEF ToSet
<1>2. s \in Bijection(DOMAIN s, ToSet(s))
  BY <1>1 DEF Bijection, Injection, Surjection, ToSet, IsInjective
<1>3. IsFiniteSet(DOMAIN s) /\ Cardinality(DOMAIN s) = Len(s)
  <2>1. PICK n \in Nat : n = Len(s)
    BY <1>1
  <2>2. IsFiniteSet(1..n) /\ Cardinality(1..n) = n
    BY FS_Interval
  <2> QED
    BY <1>1, <2>1, <2>2
<1>4. IsFiniteSet(ToSet(s)) /\ Cardinality(ToSet(s)) = Len(s)
  BY <1>2, <1>3, FS_Bijection DEF ExistsBijection
<1> DEFINE B == BytesOf(s)
           C == BytesIn(ToSet(s))
           f == [p \in C |-> <<CHOOSE i \in DOMAIN s : s[i] = p[1], p[2]>>]
<1>5. ASSUME NEW p \in B
      PROVE  \E i \in DOMAIN s, k \in Nat : k \in 1..NameLength[s[i]] /\ p = <<i, k>>
  BY DEF BytesOf
<1>6. ASSUME NEW p \in C
      PROVE  \E i \in DOMAIN s, k \in Nat : k \in 1..NameLength[s[i]] /\ p = <<s[i], k>>
  BY DEF BytesIn, ToSet
<1>7. \A i \in DOMAIN s : (CHOOSE j \in DOMAIN s : s[j] = s[i]) = i
  OBVIOUS
<1>8. ASSUME NEW i \in DOMAIN s, NEW k \in Nat, k \in 1..NameLength[s[i]]
      PROVE  <<s[i], k>> \in C /\ f[<<s[i], k>>] = <<i, k>> /\ <<i, k>> \in B
  <2>1. <<i, k>> \in B
    BY <1>8 DEF BytesOf
  <2>2. <<s[i], k>> \in C
    BY <1>8 DEF BytesIn, ToSet
  <2> QED
    BY <1>7, <2>1, <2>2
<1>9. f \in [C -> B]
  <2>1. ASSUME NEW p \in C PROVE f[p] \in B
    <3>1. PICK i \in DOMAIN s, k \in Nat : k \in 1..NameLength[s[i]] /\ p = <<s[i], k>>
      BY <1>6
    <3> HIDE DEF f, B, C
    <3> QED
      BY <1>8, <3>1
  <2> QED
    BY <2>1
<1> HIDE DEF f, B, C
<1>11. \A p, q \in C : f[p] = f[q] => p = q
  <2> SUFFICES ASSUME NEW p \in C, NEW q \in C, f[p] = f[q] PROVE p = q
    OBVIOUS
  <2>1. PICK i \in DOMAIN s, k \in Nat : k \in 1..NameLength[s[i]] /\ p = <<s[i], k>>
    BY <1>6
  <2>2. PICK j \in DOMAIN s, l \in Nat : l \in 1..NameLength[s[j]] /\ q = <<s[j], l>>
    BY <1>6
  <2>3. f[p] = <<i, k>> /\ f[q] = <<j, l>>
    BY <1>8, <2>1, <2>2
  <2> QED
    BY <2>1, <2>2, <2>3
<1>12. ASSUME NEW p \in B PROVE \E q \in C : f[q] = p
  <2>1. PICK i \in DOMAIN s, k \in Nat : k \in 1..NameLength[s[i]] /\ p = <<i, k>>
    BY <1>5
  <2> QED
    BY <1>8, <2>1
<1>13. f \in Bijection(C, B)
  BY <1>9, <1>11, <1>12 DEF Bijection, Injection, Surjection, IsInjective
<1>14. IsFiniteSet(C)
  <2>1. ToSet(s) \subseteq Names
    BY <1>1 DEF ToSet
  <2> QED
    BY <1>4, <2>1, BytesInFinite DEF C
<1>15. Cardinality(B) = Cardinality(C)
  BY <1>13, <1>14, FS_Bijection DEF ExistsBijection
<1> QED
  BY <1>4, <1>15 DEF B, C

(* What LIST sends of a list.                                              *)
LengthOf(s) == Cardinality(BytesOf(s)) + (IF s = <<>> THEN 0 ELSE Len(s) - 1)

Distinct(s) == \A i, j \in DOMAIN s : s[i] = s[j] => i = j

LEMMA ListBytesLength == ListBytes = LengthOf(filelist)
BY DEF ListBytes, NameBytes, LengthOf, BytesOf

LEMMA SomeBytes ==
    ASSUME NEW N, IsFiniteSet(N), N \subseteq Names
    PROVE  /\ Cardinality(BytesIn(N)) \in Nat
           /\ Cardinality(BytesIn(N)) = 0 <=> N = {}
<1>1. CASE N = {}
  <2>1. BytesIn(N) = {}
    BY <1>1 DEF BytesIn
  <2> QED
    BY <1>1, <2>1, FS_EmptySet
<1>2. CASE N # {}
  <2>1. PICK n \in N : TRUE
    BY <1>2
  <2> DEFINE M == N \ {n}
  <2>2. IsFiniteSet(M) /\ M \subseteq Names /\ n \in Names \ M /\ M \cup {n} = N
    BY <2>1, FS_RemoveElement
  <2> HIDE DEF M
  <2>3. /\ Cardinality(BytesIn(M)) \in Nat
        /\ Cardinality(BytesIn(M \cup {n})) = Cardinality(BytesIn(M)) + NameLength[n]
    BY <2>2, BytesInMore
  <2>4. NameLength[n] \in Nat \ {0}
    BY <2>1, OneName
  <2> QED
    BY <1>2, <2>2, <2>3, <2>4
<1> QED
  BY <1>1, <1>2

LEMMA LengthOfAppend ==
    ASSUME NEW s \in Seq(Names), Distinct(s), NEW n \in Names, n \notin ToSet(s)
    PROVE  /\ Append(s, n) \in Seq(Names) /\ Distinct(Append(s, n))
           /\ ToSet(Append(s, n)) = ToSet(s) \cup {n}
           /\ LengthOf(s) \in Nat
           /\ LengthOf(Append(s, n)) = IF LengthOf(s) = 0 THEN NameLength[n]
                                       ELSE LengthOf(s) + 1 + NameLength[n]
<1> DEFINE t == Append(s, n)
           b == Cardinality(BytesIn(ToSet(s)))
<1>1. PICK k \in Nat : k = Len(s)
  OBVIOUS
<1>2. /\ t \in Seq(Names) /\ Len(t) = k + 1 /\ t # <<>>
      /\ DOMAIN t = 1..k + 1 /\ DOMAIN s = 1..k
      /\ \A i \in 1..k + 1 : t[i] = IF i = k + 1 THEN n ELSE s[i]
  BY <1>1
<1>3. /\ ToSet(s) = {s[i] : i \in DOMAIN s} /\ ToSet(s) \subseteq Names
      /\ ToSet(t) = {t[i] : i \in DOMAIN t}
  BY DEF ToSet
<1> HIDE DEF t
<1>4. Distinct(t)
  BY <1>2, <1>3 DEF Distinct
<1>5. ToSet(t) = ToSet(s) \cup {n}
  <2>1. ToSet(t) \subseteq ToSet(s) \cup {n}
    BY <1>2, <1>3
  <2>2. ASSUME NEW i \in DOMAIN s PROVE s[i] \in ToSet(t)
    <3>1. i \in 1..k + 1 /\ i # k + 1
      BY <1>2
    <3> QED
      BY <1>2, <1>3, <3>1
  <2>3. n \in ToSet(t)
    <3>1. k + 1 \in 1..k + 1
      OBVIOUS
    <3> QED
      BY <1>2, <1>3, <3>1
  <2> QED
    BY <1>3, <2>1, <2>2, <2>3
<1>6. /\ IsFiniteSet(ToSet(s)) /\ Cardinality(ToSet(s)) = Len(s)
      /\ Cardinality(BytesOf(s)) = b /\ Cardinality(BytesOf(t)) = Cardinality(BytesIn(ToSet(t)))
  BY <1>2, <1>4, BytesOfSet DEF Distinct
<1>7. b \in Nat /\ (b = 0 <=> ToSet(s) = {})
  BY <1>3, <1>6, SomeBytes
<1>8. Cardinality(BytesIn(ToSet(t))) = b + NameLength[n] /\ NameLength[n] \in Nat \ {0}
  BY <1>3, <1>5, <1>6, BytesInMore, OneName
<1> HIDE DEF b
<1>9. LengthOf(t) = b + NameLength[n] + k
  BY <1>2, <1>6, <1>7, <1>8 DEF LengthOf
<1>10. (ToSet(s) = {} <=> k = 0) /\ (s = <<>> <=> k = 0)
  BY <1>1 DEF ToSet
<1>11. LengthOf(s) = IF k = 0 THEN b ELSE b + k - 1
  BY <1>1, <1>6, <1>7, <1>10 DEF LengthOf
<1>13. /\ LengthOf(s) \in Nat
       /\ LengthOf(t) = IF LengthOf(s) = 0 THEN NameLength[n] ELSE LengthOf(s) + 1 + NameLength[n]
  BY <1>7, <1>8, <1>9, <1>10, <1>11
<1> QED
  BY <1>2, <1>4, <1>5, <1>13 DEF t

LEMMA LengthOfRemove ==
    ASSUME NEW s \in Seq(Names), Distinct(s), NEW n \in ToSet(s)
    PROVE  /\ RemoveFirst(s, n) \in Seq(Names) /\ Distinct(RemoveFirst(s, n))
           /\ ToSet(RemoveFirst(s, n)) = ToSet(s) \ {n}
           /\ LengthOf(RemoveFirst(s, n)) \in Nat
           /\ LengthOf(RemoveFirst(s, n)) =
                IF Len(s) = 1 THEN 0 ELSE LengthOf(s) - (1 + NameLength[n])
<1> DEFINE t == RemoveFirst(s, n)
           b == Cardinality(BytesIn(ToSet(t)))
<1>1. t \in Seq(Names) /\ Distinct(t) /\ ToSet(t) = ToSet(s) \ {n} /\ Len(t) = Len(s) - 1
  BY RemoveFirstOK DEF Distinct
<1>2. n \in Names /\ ToSet(s) \subseteq Names
  BY DEF ToSet
<1> HIDE DEF t
<1>3. PICK k \in Nat : k = Len(t)
  BY <1>1
<1>4. /\ IsFiniteSet(ToSet(t)) /\ Cardinality(ToSet(t)) = k
      /\ Cardinality(BytesOf(t)) = b /\ Cardinality(BytesOf(s)) = Cardinality(BytesIn(ToSet(s)))
  BY <1>1, <1>3, BytesOfSet DEF Distinct
<1>5. b \in Nat /\ (b = 0 <=> ToSet(t) = {})
  BY <1>1, <1>2, <1>4, SomeBytes
<1>6. Cardinality(BytesIn(ToSet(s))) = b + NameLength[n] /\ NameLength[n] \in Nat \ {0}
  <2>1. ToSet(t) \cup {n} = ToSet(s) /\ n \in Names \ ToSet(t) /\ ToSet(t) \subseteq Names
    BY <1>1, <1>2
  <2> QED
    BY <1>4, <2>1, BytesInMore, OneName
<1>7. (ToSet(t) = {} <=> k = 0) /\ (t = <<>> <=> k = 0)
  BY <1>1, <1>3 DEF ToSet
<1> HIDE DEF b
<1>8. LengthOf(t) = IF k = 0 THEN b ELSE b + k - 1
  BY <1>3, <1>4, <1>5, <1>7 DEF LengthOf
<1>9. Len(s) = k + 1 /\ s # <<>>
  BY <1>1, <1>3
<1>10. LengthOf(s) = b + NameLength[n] + k
  BY <1>4, <1>5, <1>6, <1>9 DEF LengthOf
<1>11. /\ LengthOf(t) \in Nat
       /\ LengthOf(t) = IF Len(s) = 1 THEN 0 ELSE LengthOf(s) - (1 + NameLength[n])
  BY <1>5, <1>6, <1>7, <1>8, <1>9, <1>10
<1> QED
  BY <1>1, <1>11 DEF t

-----------------------------------------------------------------------------
(* The list under each step.                                               *)
LEMMA SameFilesOK ==
    ASSUME StoredOK, UNCHANGED <<filelist, list_size>>,
           DOMAIN disk' = DOMAIN disk, \A n \in DOMAIN disk : disk'[n] \in Nat,
           Down => Down', server' = "interrupted" => server = "interrupted"
    PROVE  StoredOK'
<1>1. ListBytes' = ListBytes
  BY DEF ListBytes, NameBytes
<1>2. StoreOK'
  BY DEF StoredOK, StoreOK
<1>3. ~Down' => ~Down
  OBVIOUS
<1>4. Listed'
  BY <1>1, <1>3 DEF StoredOK, Listed
<1> QED
  BY <1>2, <1>4 DEF StoredOK

LEMMA StoreUnchangedOK ==
    ASSUME StoredOK, UNCHANGED storeVars,
           Down => Down', server' = "interrupted" => server = "interrupted"
    PROVE  StoredOK'
<1>1. \A n \in DOMAIN disk : disk'[n] \in Nat
  BY DEF StoredOK, StoreOK, storeVars
<1> QED
  BY <1>1, SameFilesOK DEF storeVars

\* Nothing is left when the listed files are removed.
LEMMA InterruptedStoreOK ==
    ASSUME StoredOK, ~Down, handle_sigint
    PROVE  StoredOK'
<1>1. DOMAIN disk' = {}
  BY DEF handle_sigint, StoredOK, Listed
<1>2. StoreOK'
  BY <1>1 DEF StoredOK, StoreOK, handle_sigint
<1>3. Listed'
  BY <1>1 DEF Listed, Down, handle_sigint
<1> QED
  BY <1>2, <1>3 DEF StoredOK

LEMMA PutStoreOK ==
    ASSUME ServingOK, StoredOK, server = "header", PutBegin
    PROVE  StoredOK'
<1>1. Name \in Names
  BY ServedOK, RequestOK DEF Name
<1>2. /\ filelist \in Seq(Names) /\ Distinct(filelist) /\ ToSet(filelist) = DOMAIN disk
      /\ list_size = LengthOf(filelist) /\ list_size \in Nat
  BY ListBytesLength DEF StoredOK, StoreOK, Listed, Down, Distinct
<1>3. /\ DOMAIN disk' = DOMAIN disk \cup {Name}
      /\ \A n \in DOMAIN disk' : disk'[n] \in Nat
  BY DEF PutBegin, StoredOK, StoreOK
<1>4. server' = "size"
  BY DEF PutBegin
<1>5. /\ filelist' \in Seq(Names) /\ Distinct(filelist') /\ ToSet(filelist') = DOMAIN disk'
      /\ list_size' = LengthOf(filelist') /\ list_size' \in Nat
  <2>1. CASE Exists
    <3>1. filelist' = filelist /\ list_size' = list_size
      BY <2>1 DEF PutBegin, AddToList
    <3>2. DOMAIN disk' = DOMAIN disk
      BY <1>3, <2>1 DEF Exists
    <3> QED
      BY <1>2, <3>1, <3>2
  <2>2. CASE ~Exists
    <3>1. /\ filelist' = Append(filelist, Name)
          /\ list_size' = IF list_size = 0 THEN NameLength[Name]
                          ELSE list_size + 1 + NameLength[Name]
      BY <2>2 DEF PutBegin, AddToList
    <3>2. Name \notin ToSet(filelist)
      BY <1>2, <2>2 DEF Exists
    <3>3. PICK n \in Names : n = Name
      BY <1>1
    <3>4. /\ filelist' \in Seq(Names) /\ Distinct(filelist')
          /\ ToSet(filelist') = ToSet(filelist) \cup {n}
          /\ list_size' = LengthOf(filelist')
      BY <1>2, <3>1, <3>2, <3>3, LengthOfAppend
    <3>5. list_size' \in Nat
      <4>1. NameLength[n] \in Nat
        BY OneName
      <4> QED
        BY <1>2, <3>1, <3>3, <4>1
    <3> QED
      BY <1>2, <1>3, <3>3, <3>4, <3>5
  <2> QED
    BY <2>1, <2>2
<1>6. StoreOK'
  BY <1>1, <1>2, <1>3, <1>5 DEF StoreOK, StoredOK
<1>7. Listed'
  <2>1. ListBytes' = LengthOf(filelist')
    BY DEF ListBytes, NameBytes, LengthOf, BytesOf
  <2> QED
    BY <1>4, <1>5, <2>1 DEF Listed, Distinct
<1> QED
  BY <1>6, <1>7 DEF StoredOK

LEMMA DeleteStoreOK ==
    ASSUME ServingOK, StoredOK, server = "header", Delete
    PROVE  StoredOK'
<1>1. server' # "interrupted" /\ ~Down
  BY DEF Delete, Respond, Down
<1>2. CASE UNCHANGED storeVars
  BY <1>1, <1>2, StoreUnchangedOK
<1>3. CASE /\ Exists
           /\ disk' = [n \in DOMAIN disk \ {Name} |-> disk[n]]
           /\ filelist' = RemoveFirst(filelist, Name)
           /\ list_size' = SizeWithout
  <2>1. /\ filelist \in Seq(Names) /\ Distinct(filelist) /\ ToSet(filelist) = DOMAIN disk
        /\ list_size = LengthOf(filelist) /\ list_size \in Nat
    BY ListBytesLength DEF StoredOK, StoreOK, Listed, Down, Distinct
  <2>2. PICK n \in ToSet(filelist) : n = Name
    BY <1>3, <2>1 DEF Exists
  <2>3. /\ filelist' \in Seq(Names) /\ Distinct(filelist')
        /\ ToSet(filelist') = ToSet(filelist) \ {n}
        /\ list_size' = LengthOf(filelist') /\ list_size' \in Nat
    BY <1>3, <2>1, <2>2, LengthOfRemove DEF SizeWithout
  <2>4. DOMAIN disk' = DOMAIN disk \ {n} /\ \A m \in DOMAIN disk' : disk'[m] = disk[m]
    BY <1>3, <2>2
  <2>5. StoreOK'
    BY <2>3, <2>4 DEF StoredOK, StoreOK
  <2>6. ListBytes' = LengthOf(filelist')
    BY DEF ListBytes, NameBytes, LengthOf, BytesOf
  <2>7. Listed'
    BY <1>1, <2>1, <2>3, <2>4, <2>6 DEF Listed, Distinct
  <2> QED
    BY <2>5, <2>7 DEF StoredOK
<1> QED
  BY <1>2, <1>3 DEF Delete

LEMMA ServerStoreOK ==
    ASSUME ServingOK, StoredOK, ServerStep
    PROVE  StoredOK'
<1>1. server \in {"loop", "header", "size", "data"} /\ ~Down
  BY DEF ServerStep, epoll_wait, Accept, handle_client_request, ReadHeader, ReadSize,
         ReadChunk, ReadTail, Down
<1>2. CASE epoll_wait \/ Accept \/ handle_client_request
  <2>1. UNCHANGED storeVars /\ server' # "interrupted"
    BY <1>1, <1>2 DEF epoll_wait, Accept, handle_client_request, Down
  <2> QED
    BY <1>1, <2>1, StoreUnchangedOK
<1>3. CASE ReadHeader
  <2>1. server = "header"
    BY <1>3 DEF ReadHeader
  <2>2. CASE Get \/ List
    <3>1. UNCHANGED storeVars /\ server' # "interrupted"
      BY <2>2 DEF Get, List, Respond
    <3> QED
      BY <1>1, <3>1, StoreUnchangedOK
  <2> QED
    BY <1>1, <1>3, <2>1, <2>2, PutStoreOK, DeleteStoreOK, InterruptedStoreOK DEF ReadHeader
<1>4. CASE ReadSize
  <2>1. CASE handle_sigint
    BY <1>1, <2>1, InterruptedStoreOK
  <2>2. CASE UNCHANGED storeVars /\ server' = "data"
    BY <1>1, <2>2, StoreUnchangedOK
  <2> QED
    BY <1>4, <2>1, <2>2 DEF ReadSize
<1>5. CASE ReadChunk
  <2>1. UNCHANGED <<filelist, list_size>> /\ server' # "interrupted"
    BY <1>1, <1>5 DEF ReadChunk, Respond
  <2>2. /\ DOMAIN disk' = DOMAIN disk
        /\ \A n \in DOMAIN disk : disk'[n] = disk[n] \/ disk'[n] = disk[n] + 1
    BY <1>5 DEF ReadChunk
  <2>3. \A n \in DOMAIN disk : disk'[n] \in Nat
    BY <2>2 DEF StoredOK, StoreOK
  <2> QED
    BY <1>1, <2>1, <2>2, <2>3, SameFilesOK
<1>6. CASE ReadTail
  <2>1. UNCHANGED storeVars /\ server' # "interrupted"
    BY <1>1, <1>6 DEF ReadTail, Respond
  <2> QED
    BY <1>1, <2>1, StoreUnchangedOK
<1> QED
  BY <1>2, <1>3, <1>4, <1>5, <1>6 DEF ServerStep

-----------------------------------------------------------------------------
(* The invariant.                                                          *)
IInv == ServingOK /\ StoredOK

LEMMA InitOK == Init => IInv
<1> SUFFICES ASSUME Init PROVE IInv
  OBVIOUS
<1> USE DEF Init
<1>1. TypeOK
  BY DEF TypeOK
<1>2. Connections /\ AnswersOK
  BY DEF Connections, AnswersOK
<1>3. Pending /\ Serving
  BY DEF Pending, Serving, Accepted, ToSet
<1>4. StoreOK
  BY DEF StoreOK
<1>5. Listed
  <2>1. NameBytes = {}
    BY DEF NameBytes
  <2>2. ListBytes = 0
    BY <2>1, FS_EmptySet DEF ListBytes
  <2>3. DOMAIN disk = {} /\ ToSet(filelist) = {} /\ DOMAIN filelist = {}
    BY DEF ToSet
  <2> QED
    BY <2>2, <2>3 DEF Listed, Down
<1> QED
  BY <1>1, <1>2, <1>3, <1>4, <1>5 DEF IInv, ServingOK, StoredOK

LEMMA NextOK == IInv /\ [Next]_vars => IInv'
<1> SUFFICES ASSUME IInv, [Next]_vars PROVE IInv'
  OBVIOUS
<1>1. ServingOK /\ StoredOK
  BY DEF IInv
<1>2. CASE ServerStep
  <2>1. ServingOK'
    BY <1>1, <1>2, LoopOK, ReadHeaderOK, ReadPutOK DEF ServerStep
  <2> QED
    BY <1>1, <1>2, <2>1, ServerStoreOK DEF IInv
<1>3. ASSUME NEW c \in Clients, Connect(c) \/ ClientStep(c) \/ BreakOff(c)
      PROVE  IInv'
  <2>1. ServingOK'
    BY <1>1, <1>3, ConnectOK, ClientOK
  <2>2. UNCHANGED storeVars /\ UNCHANGED server
    BY <1>3 DEF Connect, ClientStep, BreakOff, send_request, send_fails, Shutdown,
                handle_response, Leave, loopVars
  <2> QED
    BY <1>1, <2>1, <2>2, StoreUnchangedOK DEF IInv, Down
<1>4. CASE UNCHANGED vars
  <2>1. TypeOK' /\ Connections' /\ AnswersOK'
    BY <1>1, <1>4 DEF ServingOK, TypeOK, Connections, AnswersOK, Fits, vars
  <2>2. Pending' /\ Serving'
    BY <1>1, <1>4 DEF ServingOK, Pending, Serving, Accepted, Down, vars
  <2>3. UNCHANGED storeVars /\ UNCHANGED server
    BY <1>4 DEF vars, storeVars
  <2> QED
    BY <1>1, <2>1, <2>2, <2>3, StoreUnchangedOK DEF IInv, ServingOK, Down
<1> QED
  BY <1>2, <1>3, <1>4 DEF Next

(* The invariant holds in every state of the server and its clients.       *)
THEOREM Invariance == Spec => []IInv
<1> QED
  BY InitOK, NextOK, PTL DEF Spec

\* Nothing is left to read of a connection before its request is complete:
\* the client has not half closed it but broken off.
LEMMA EndsTooEarly ==
    ASSUME ServingOK, server \in {"header", "size"}, AtEnd(cur_fd)
    PROVE  stage[cur_fd] = "gone"
<1>1. taken[cur_fd] < Length(request[cur_fd])
  BY ServedOK, RequestOK DEF ServingOK, Serving
<1> QED
  BY <1>1, ServedOK DEF AtEnd, Unread

(* The server ends only while it serves a client that has broken off or    *)
(* whose header is refused.                                                *)
THEOREM OnlyServedClientsEndIt == Spec => EndsByServedClient
<1> DEFINE ItsFault == \/ stage[cur_fd] = "gone"
                       \/ request[cur_fd].verb \notin Verbs
                       \/ HeaderLength(request[cur_fd]) > 263
<1>1. ASSUME IInv, Next, ~Down, Down' PROVE cur_fd \in Clients /\ ItsFault
  <2>1. ReadHeader \/ ReadSize \/ ReadChunk \/ ReadTail
    <3>1. CASE epoll_wait \/ Accept \/ handle_client_request
      BY <1>1, <3>1 DEF epoll_wait, Accept, handle_client_request, Down
    <3>2. ASSUME NEW c \in Clients, Connect(c) \/ ClientStep(c) \/ BreakOff(c) PROVE FALSE
      BY <1>1, <3>2 DEF Connect, ClientStep, BreakOff, send_request, send_fails, Shutdown,
                        handle_response, Leave, loopVars, Down
    <3> QED
      BY <1>1, <3>1, <3>2 DEF Next, ServerStep
  <2>2. ServingOK /\ server \in {"header", "size", "data"}
    BY <1>1, <2>1 DEF IInv, ReadHeader, ReadSize, ReadChunk, ReadTail
  <2>3. cur_fd \in Clients
    BY <2>2, ServedOK
  <2> SUFFICES ItsFault
    BY <2>3
  <2>4. ASSUME NEW status, NEW n, NEW m, Respond(status, n, m) PROVE ItsFault
    BY <1>1, <2>4 DEF Respond, Down
  <2>5. CASE ReadHeader
    <3>1. CASE Unread(cur_fd) /\ Refused(request[cur_fd])
      BY <3>1 DEF Refused
    <3>2. CASE AtEnd(cur_fd)
      BY <2>2, <2>5, <3>2, EndsTooEarly DEF ReadHeader
    <3>3. CASE Get \/ List \/ PutBegin \/ Delete
      BY <1>1, <2>4, <3>3 DEF Get, List, PutBegin, Delete, Down
    <3> QED
      BY <2>5, <3>1, <3>2, <3>3 DEF ReadHeader
  <2>6. CASE ReadSize
    <3>1. AtEnd(cur_fd) /\ server = "size"
      BY <1>1, <2>6 DEF ReadSize, Down
    <3> QED
      BY <2>2, <3>1, EndsTooEarly
  <2>7. CASE ReadChunk
    BY <1>1, <2>2, <2>4, <2>7 DEF ReadChunk, Reset, Down
  <2>8. CASE ReadTail
    BY <2>4, <2>8 DEF ReadTail
  <2> QED
    BY <2>1, <2>5, <2>6, <2>7, <2>8
<1>2. IInv /\ [Next]_vars => [~Down /\ Down' => cur_fd \in Clients /\ ItsFault]_vars
  BY <1>1
<1> QED
  BY <1>2, Invariance, PTL DEF Spec, EndsByServedClient

(* What LIST sends is the directory, and its announced size is right.      *)
THEOREM ListIsDirectory == Spec => []ListMatchesDisk
<1>1. IInv => ListMatchesDisk
  <2> SUFFICES ASSUME IInv PROVE ListMatchesDisk
    OBVIOUS
  <2>1. Listed /\ filelist \in Seq(Names)
    BY DEF IInv, StoredOK, StoreOK
  <2>2. ~Down => Len(filelist) = Cardinality(DOMAIN disk)
    BY <2>1, BytesOfSet DEF Listed
  <2> QED
    BY <2>1, <2>2 DEF ListMatchesDisk, Listed
<1> QED
  BY <1>1, Invariance, PTL

(* Each answer that a client reads is the one its request must have.       *)
THEOREM AnswersAreRight == Spec => AnswersFit
<1> DEFINE Right(c) ==
      LET r == request[c] IN
         /\ handle_response(c) =>
              \/ Down
              \/ IF r.verb = "PUT" /\ r.size # r.sends
                 THEN Understood(r, answer[c]) = "error"
                 ELSE Understood(r, answer[c]) \in
                        {"success"} \cup IF r.verb \in {"PUT", "LIST"} THEN {} ELSE {"error"}
         /\ send_fails(c) => Down \/ r.sends > r.size
<1>1. ASSUME IInv, NEW c \in Clients PROVE Right(c)
  <2>1. CASE Down
    BY <2>1
  <2>2. CASE ~Closed(c)
    BY <2>2 DEF handle_response, send_fails
  <2>3. CASE ~Down /\ answer[c] # NULL
    <3>1. CASE stage[c] \in {"waiting", "sending"}
      <4>1. PICK r \in Requests : r = request[c]
        BY <1>1, <3>1 DEF IInv, ServingOK, Connections
      <4>2. PICK a \in Answers : a = answer[c]
        BY <1>1, <2>3 DEF IInv, ServingOK, TypeOK
      <4>3. /\ stage[c] = "sending" => sent[c] = Length(r) \/ r.sends > r.size
            /\ r.verb = "PUT" => (a.status = "OK" <=> r.size = r.sends)
            /\ r.verb \in Verbs
            /\ r.verb \in {"GET", "LIST"} /\ a.status = "OK" => a.size = a.body
            /\ r.verb = "LIST" => a.status = "OK"
        BY <1>1, <2>3, <3>1, <4>1, <4>2 DEF IInv, ServingOK, AnswersOK, Fits
      <4>4. send_fails(c) => r.sends > r.size
        <5>1. send_fails(c) => sent[c] < Length(r) /\ stage[c] = "sending"
          BY <4>1 DEF send_fails
        <5>2. Length(r) \in Nat
          BY RequestOK
        <5> QED
          BY <4>3, <5>1, <5>2
      <4>5. /\ r.verb \in {"GET", "PUT", "DELETE", "LIST"}
            /\ a.status \in {"OK", "ERROR"} /\ a.size \in Nat /\ a.body \in Nat
            /\ a # NULL
        BY <2>3, <4>2, <4>3 DEF Answers, Verbs
      <4>6. a.status = "OK" => Understood(r, a) = "success"
        <5>1. a.status = "OK" => r.verb \in {"PUT", "DELETE"} \/ a.size = a.body
          BY <4>3, <4>5
        <5> QED
          BY <4>5, <5>1 DEF Understood
      <4>7. a.status = "ERROR" => Understood(r, a) = "error"
        BY <4>5 DEF Understood
      <4>8. IF r.verb = "PUT" /\ r.size # r.sends
            THEN Understood(r, a) = "error"
            ELSE Understood(r, a) \in
                   {"success"} \cup IF r.verb \in {"PUT", "LIST"} THEN {} ELSE {"error"}
        BY <4>3, <4>5, <4>6, <4>7
      <4> QED
        BY <4>1, <4>2, <4>4, <4>8
    <3>2. CASE stage[c] \notin {"waiting", "sending"}
      BY <3>2 DEF handle_response, send_fails
    <3> QED
      BY <3>1, <3>2
  <2> QED
    BY <2>1, <2>2, <2>3 DEF Closed
<1>2. IInv => [\A c \in Clients : Right(c)]_vars
  BY <1>1
<1> QED
  BY <1>2, Invariance, PTL DEF AnswersFit
=============================================================================

----------------------------- MODULE Discovery -----------------------------
(***************************************************************************)
(* From what a user knows of a gateway to the OWNGateway object that the   *)
(* sessions use: build_from_discovery_info(), the lookup of a descriptor   *)
(* on the gateway itself, the SSDP search with datagrams of anyone on the  *)
(* network, and the event session of the command line that the gateway is  *)
(* given to.  A device is named by its address; an URL is the address of   *)
(* its host, and the serial number in a descriptor is the device's name.   *)
(***************************************************************************)
EXTENDS Integers, Sequences

CONSTANTS Hosts,      \* devices with an address
          Null,       \* None
          Networks,   \* what the devices are: functions from Hosts to Devices
          Asked,      \* what build_from_discovery_info() is called with
          MaxAnswers  \* bound of the model: datagrams waiting or taken

DefaultPort == 20000
Absent == -1 \* no "port" among what is asked
Unset == 0   \* a port of None, or 0
Ports == {Absent, Unset, DefaultPort, 20001}

VARIABLES
  net,       \* what each device is and answers
  stage,     \* the request or sleep that the task waits for
  asked,     \* discovery_info
  url,       \* the host that is asked
  direct,    \* the port of the direct lookup
  endpoint,  \* the datagram endpoint of the search
  recvq,     \* the answers taken in: who sent it, and its LOCATION
  found,     \* return_list
  announced, \* what the gateways have answered, in order
  gateway,   \* the OWNGateway that is returned, or Null
  session    \* the event session: the gateway it is bound to, its interval
discoveryVars == <<net, stage, asked, url, direct, endpoint, recvq, found, announced, gateway, session>>
search == <<recvq, found, announced>>

(* A device: whether its USN is one of GATEWAY_USN_PREFIXES, the port of    *)
(* its descriptor, the serial number and the model in it, the port that     *)
(* getopenserverPort answers, in which of the two answers an element stands *)
(* where a text belongs, and whether it accepts requests and is mute.       *)
Devices == [usn : BOOLEAN, page : {49153, 80, 8080}, named : BOOLEAN,
            model : {"F454", Null}, port : {Unset, 20001},
            odd : {"none", "page", "port"}, mute : BOOLEAN]
Answers == [address : Hosts, location : Hosts]

(* What is known of a gateway: the asked one, or one that is found.         *)
Infos ==
  [address : Hosts \cup {Null}, location : Hosts \cup {Null}, port : Ports \cup {Null},
   password : {a.password : a \in Asked} \cup {Null},
   serial : {a.serial : a \in Asked} \cup Hosts \cup {Null},
   model : {a.model : a \in Asked} \cup {"F454", Null}]

ASSUME DiscoveryAssumption ==
  /\ Networks \subseteq [Hosts -> Devices]
  /\ Asked \subseteq Infos /\ Null \notin Infos \cup Hosts

(* What an answer to the search tells, and what get_gateway() asks itself. *)
Entry(a) == [address |-> a.address, location |-> a.location, port |-> Absent, password |-> Null,
             serial |-> Null, model |-> Null]
Self(h) == [address |-> h, location |-> h]
(* _get_scpd_details: the fields are those of one descriptor. *)
Details(e, h, port) ==
  [e EXCEPT !.port = port, !.serial = IF net[h].named THEN h ELSE Null, !.model = net[h].model]

(* OWNGateway.__init__: a port of 0 or none is the default of the profile.  *)
OWNGateway(info) ==
  [info EXCEPT !.port = IF info.port \in {Absent, Unset} THEN DefaultPort ELSE info.port]

(* The profile of the model, and no interval for the others. *)
Interval(g) == IF g # Null /\ g.model = "F454" THEN 90 ELSE Null

(* The requests and sleeps of the task, and the requests with a timeout.   *)
Requests == {"port", "lookup", "lookup_port", "details", "details_port"}
(* Mutant: the descriptor is asked for without one. *)
TimedButOne == Requests \ {"details"}
Timed == Requests

DiscoveryInit ==
  /\ net \in Networks /\ asked \in Asked
  /\ stage = "idle" /\ url = Null /\ direct = Null /\ endpoint = "none"
  /\ recvq = <<>> /\ found = <<>> /\ announced = <<>>
  /\ gateway = Null /\ session = [bound |-> Null, interval |-> Null]

Deliver(g) == gateway' = g /\ stage' = "built"
Await(phase, h) == stage' = phase /\ url' = h

(***************** OWNGateway.build_from_discovery_info *******************)

Located(info) ==
  IF info.address = Null /\ info.location # Null
  THEN [info EXCEPT !.address = info.location] ELSE info

(* With a port, or none named, no one is asked. *)
BuildAsGiven ==
  /\ stage = "idle" /\ asked.port # Null /\ Deliver(OWNGateway(Located(asked)))
  /\ UNCHANGED <<net, asked, url, direct, endpoint, search, session>>

BuildFromLocation ==
  /\ stage = "idle" /\ asked.port = Null /\ asked.location # Null
  /\ asked' = Located(asked) /\ Await("port", asked.location)
  /\ UNCHANGED <<net, direct, endpoint, search, gateway, session>>

(* find_from_address(), and get_gateway() that asks the address itself. *)
BuildFromAddress ==
  /\ stage = "idle" /\ asked.port = Null /\ asked.location = Null /\ asked.address # Null
  /\ Await("lookup", asked.address) /\ direct' = 49153
  /\ UNCHANGED <<net, asked, endpoint, search, gateway, session>>

(* find_gateways(): the datagram endpoint is open while the task sleeps. *)
Search == stage' = "window" /\ endpoint' = "open"
BuildFromSearch ==
  /\ stage = "idle" /\ asked.port = Null /\ asked.location = Null /\ asked.address = Null
  /\ Search
  /\ UNCHANGED <<net, asked, url, direct, search, gateway, session>>

(******************** requests to devices, by HTTP ************************)

Ends(phase) == stage = phase /\ (~net[url].mute \/ phase \in Timed)
Replied(phase) == stage = phase /\ ~net[url].mute

(* get_port(): a text that is no number, none, and every failure of the    *)
(* request are the default port.  Where an element stands for the text,    *)
(* _node_text() raises AttributeError, which get_port() does not expect.   *)
PortOf(h) == IF net[h].port = Unset THEN DefaultPort ELSE net[h].port
GetPort(phase) ==
  {p \in Ports : \/ Replied(phase) /\ net[url].odd # "port" /\ p = PortOf(url)
                 \/ Ends(phase) /\ p = DefaultPort}
PortRaises(phase) == Replied(phase) /\ net[url].odd = "port"

PortKnown ==
  /\ \E p \in GetPort("port") : Deliver(OWNGateway([asked EXCEPT !.port = p]))
  /\ UNCHANGED <<net, asked, url, direct, endpoint, search, session>>
BuildRaises ==
  /\ PortRaises("port") /\ stage' = "raised"
  /\ UNCHANGED <<net, asked, url, direct, endpoint, search, gateway, session>>

(* get_gateway(): a descriptor on port 49153, then on 80, then the search; *)
(* whatever is raised ends one of the lookups.                             *)
NextLookup ==
  \/ direct = 49153 /\ stage' = "lookup" /\ direct' = 80 /\ UNCHANGED endpoint
  \/ direct = 80 /\ Search /\ direct' = Null
LookupFails ==
  /\ Ends("lookup") \/ PortRaises("lookup_port")
  /\ NextLookup
  /\ UNCHANGED <<net, asked, url, search, gateway, session>>
LookupAnswers ==
  /\ Replied("lookup") /\ net[url].page = direct /\ net[url].odd # "page"
  /\ stage' = "lookup_port"
  /\ UNCHANGED <<net, asked, url, direct, endpoint, search, gateway, session>>
(* A descriptor without a serial number is not trusted. *)
LookupPort ==
  /\ \E p \in GetPort("lookup_port") :
       IF net[url].named
       THEN /\ Deliver(OWNGateway(Details(Entry(Self(url)), url, p))) /\ UNCHANGED <<direct, endpoint>>
       ELSE NextLookup /\ UNCHANGED gateway
  /\ UNCHANGED <<net, asked, url, search, session>>

(******************** SSDP: the answers to M-SEARCH ***********************)

(* SimpleServiceDiscoveryProtocol.datagram_received(). *)
Usable(h, form) == form = "response" /\ net[h].usn

(* Anyone sends, in any order and as often as he likes: a response, text    *)
(* that is not one, a response with a status line that cannot be read, or   *)
(* without a LOCATION or an ST.  Its LOCATION is where the sender says.     *)
Datagram(h, location, form) ==
  /\ endpoint = "open" /\ Len(recvq) < MaxAnswers
  /\ LET a == [address |-> h, location |-> location] IN
       /\ recvq' = IF Usable(h, form) THEN Append(recvq, a) ELSE recvq
       /\ announced' = IF form = "response" /\ net[h].usn THEN Append(announced, a) ELSE announced
  /\ UNCHANGED <<net, stage, asked, url, direct, endpoint, found, gateway, session>>

(* The window ends; what is sent to a closed endpoint is lost. *)
WindowEnds ==
  /\ stage = "window" /\ endpoint' = "closed" /\ stage' = "next"
  /\ UNCHANGED <<net, asked, url, direct, search, gateway, session>>

(* The answer at the head of the queue is the one at work. *)
Describe ==
  /\ stage = "next" /\ recvq # <<>> /\ Await("details", Head(recvq).location)
  /\ UNCHANGED <<net, asked, direct, endpoint, search, gateway, session>>
DetailsAnswer ==
  /\ Replied("details") /\ net[url].odd # "page" /\ stage' = "details_port"
  /\ UNCHANGED <<net, asked, url, direct, endpoint, search, gateway, session>>
Listed(e) ==
  /\ stage' = "next" /\ found' = Append(found, e) /\ recvq' = Tail(recvq)
  /\ UNCHANGED <<net, asked, url, direct, endpoint, announced, gateway, session>>
(* The details are best effort: the answer itself is kept. *)
DetailsFail == Ends("details") /\ Listed(Entry(Head(recvq)))
DetailsPort == \E p \in GetPort("details_port") : Listed(Details(Entry(Head(recvq)), url, p))
(* Not so for an element where a text belongs: the suppress of              *)
(* find_gateways() does not name AttributeError, and the search ends.       *)
DetailsRaise ==
  /\ (Replied("details") /\ net[url].odd = "page") \/ PortRaises("details_port")
  /\ stage' = "raised"
  /\ UNCHANGED <<net, asked, url, direct, endpoint, search, gateway, session>>

(* Any will do, or one with the address.  Mutant: any, for an address too. *)
FitsAny(e) == TRUE
Fits(e) == asked.address \in {Null, e.address}
(* With the password of the user where no address was asked for. *)
Chosen(e) ==
  OWNGateway(IF asked.address = Null THEN [e EXCEPT !.password = asked.password] ELSE e)

(* The first that fits, if there is one. *)
SearchEnds ==
  /\ stage = "next" /\ recvq = <<>>
  /\ \/ (\A i \in DOMAIN found : ~Fits(found[i])) /\ Deliver(Null)
     \/ \E i \in DOMAIN found :
          /\ Fits(found[i]) /\ \A j \in 1 .. i - 1 : ~Fits(found[j])
          /\ Deliver(Chosen(found[i]))
  /\ UNCHANGED <<net, asked, url, direct, endpoint, search, session>>

(* The caller cancels the task; a finally closes the endpoint. *)
Cancel ==
  /\ stage \in Requests \cup {"window"} /\ stage' = "cancelled"
  /\ endpoint' = IF stage = "window" THEN "closed" ELSE endpoint
  /\ UNCHANGED <<net, asked, url, direct, search, gateway, session>>

(*************************** the event session ****************************)

(* __main__: the session was made without a gateway, which is set now. *)
BindLater ==
  /\ stage = "built" /\ gateway # Null /\ stage' = "bound"
  /\ session' = [session EXCEPT !.bound = gateway]
  /\ UNCHANGED <<net, asked, url, direct, endpoint, search, gateway>>
(* A consumer makes it with the gateway. *)
BindFirst ==
  /\ stage = "built" /\ gateway # Null /\ stage' = "bound"
  /\ session' = [bound |-> gateway, interval |-> Interval(gateway)]
  /\ UNCHANGED <<net, asked, url, direct, endpoint, search, gateway>>

DiscoveryStep ==
  \/ BuildAsGiven \/ BuildFromLocation \/ BuildFromAddress \/ BuildFromSearch
  \/ PortKnown \/ BuildRaises \/ LookupFails \/ LookupAnswers \/ LookupPort
  \/ WindowEnds \/ Describe \/ DetailsAnswer \/ DetailsFail \/ DetailsPort \/ DetailsRaise
  \/ SearchEnds
Forms == {"response", "no_response", "unreadable", "no_location", "no_st"}
DiscoveryNext ==
  \/ DiscoveryStep \/ Cancel \/ BindLater \/ BindFirst
  \/ \E h, location \in Hosts, form \in Forms : Datagram(h, location, form)

(* The loop runs: sleeps and requests with a timeout end. *)
DiscoverySpec ==
  DiscoveryInit /\ [][DiscoveryNext]_discoveryVars /\ WF_discoveryVars(DiscoveryStep)

(* Besides the types: a gateway that is returned has a port to connect to. *)
DiscoveryTypeOK ==
  /\ net \in [Hosts -> Devices]
  /\ stage \in Requests \cup {"idle", "window", "next", "built", "bound", "raised", "cancelled"}
  /\ url \in Hosts \cup {Null} /\ direct \in {Null, 49153, 80}
  /\ endpoint \in {"none", "open", "closed"}
  /\ recvq \in Seq(Answers) /\ announced \in Seq(Answers)
  /\ \A i \in DOMAIN found : found[i].address \in Hosts
  /\ gateway # Null => gateway.port \in Ports \ {Absent, Unset}
  /\ session.bound \in {Null, gateway} /\ session.interval \in {Null, 90}

Returned == stage \in {"built", "bound"}

(* The gateway that is returned is the one that was asked for, if an        *)
(* address was.  Its port, serial number and model are those of one device, *)
(* which is itself or the one it named when it answered, those the user     *)
(* gave, or the default, whoever else answers the search first and          *)
(* whichever requests fail.                                                 *)
IsTheOneAskedFor ==
  Returned /\ gateway # Null /\ gateway.address # Null =>
    /\ asked.address \in {Null, gateway.address}
    /\ \/ gateway.location \in {asked.location, gateway.address}
       \/ \E i \in DOMAIN announced : announced[i] = [address |-> gateway.address, location |-> gateway.location]
    /\ LET home == IF gateway.location = Null THEN gateway.address ELSE gateway.location IN
         /\ gateway.port \in {DefaultPort, asked.port, net[home].port}
         /\ gateway.serial \in {Null, asked.serial, home}
         /\ gateway.model \in {Null, asked.model, net[home].model}

(* A search that returns has every gateway that answered while the window   *)
(* was open, in order and as often as it did, with details or without, and  *)
(* nothing else; no gateway is returned only if none with the address       *)
(* answered.                                                                *)
SearchIsComplete ==
  Returned /\ endpoint = "closed" =>
    /\ Len(found) = Len(announced)
    /\ \A i \in DOMAIN found : found[i].address = announced[i].address
    /\ gateway = Null <=> \A i \in DOMAIN announced : asked.address \notin {Null, announced[i].address}

(* The datagram endpoint is open only while the search sleeps, also when    *)
(* the search is cancelled.                                                 *)
EndpointReleased == endpoint = "open" => stage = "window"

(* What discovery returns is the gateway that was asked for, from all that *)
(* answered (discovery.py:360-450, gateway.py:125-170).                    *)
GatewayIsFound == IsTheOneAskedFor /\ SearchIsComplete /\ EndpointReleased

(* Discovery ends, although a device may accept requests and never answer   *)
(* them, and answers to the search may go on for ever (discovery.py:23): it *)
(* returns, is cancelled or raises.                                         *)
DiscoveryEnds == <>(Returned \/ stage \in {"raised", "cancelled"})

(* "-P, --password: Numeric OPEN password or HMAC secret" (README.md:281):  *)
(* the gateway that is returned has the password the user gave.             *)
PasswordKept ==
  Returned /\ gateway # Null /\ asked.password # Null => gateway.password = asked.password

(* The table at README.md:103 gives each model its event keepalive: a        *)
(* session bound to a gateway keeps it alive with the interval of its       *)
(* profile.                                                                 *)
KeepaliveAsProfiled == stage = "bound" => session.interval = Interval(session.bound)
=============================================================================

------------------------------ MODULE Routing ------------------------------
(***************************************************************************)
(* The two ways a location finds its service.  The trie router              *)
(* (rpc_router_trie) splits paths into segments and walks two levels of     *)
(* tries; the inline routers (Router of mptp_smux, RpcRouter of             *)
(* rpc_core_v1) compare texts against lists.  A text is a sequence of       *)
(* characters, one of them the slash: what the routers must get right is    *)
(* where a segment ends.  A match is the set of what it finds: empty, or    *)
(* one element.                                                             *)
(***************************************************************************)
EXTENDS Paths

CONSTANTS
  InterfaceTexts,  \* texts an interface may be registered under
  ServiceTexts,    \* texts a service may be registered under
  Locations,       \* texts a request may carry
  MaxInterfaces, MaxServices  \* bounds: registrations, services in each

ASSUME RoutingAssumption ==
  /\ MaxInterfaces \in Nat /\ MaxServices \in Nat
  /\ InterfaceTexts \cup ServiceTexts \cup Locations \subseteq Seq(Chars)

VARIABLES
  interfaces,  \* the trie router: a trie of tries
  routes,      \* the inline routers: what was added last comes first
  asked        \* history: what was registered, [interface, services, done]

vars == <<interfaces, routes, asked>>

-----------------------------------------------------------------------------
(* PathTrie: the paths of its nodes, and the values at some of them. *)

NewTrie == [nodes |-> {<< >>}, value |-> << >>]

TrieContains(trie, text) == Split(text) \in DOMAIN trie.value

Insert(trie, text, v) ==
  LET path == Split(text)
  IN [nodes |-> trie.nodes \cup {SubSeq(path, 1, n) : n \in 0 .. Len(path)},
      value |-> [p \in DOMAIN trie.value \cup {path} |->
                   IF p = path THEN v ELSE trie.value[p]]]

(* How many segments the deepest value on the way takes.                    *)
Valued(trie, segs) == {n \in 0 .. Len(segs) : SubSeq(segs, 1, n) \in DOMAIN trie.value}
Deepest(depths) == {n \in depths : \A m \in depths : m <= n}

MatchBelowRoot(trie, segs) == Deepest(Valued(trie, segs) \ {0})

(* The way ends at the first segment that is no child.                      *)
MatchLongest(trie, segs) ==
  Deepest({n \in Valued(trie, segs) : \A m \in 1 .. n : SubSeq(segs, 1, m) \in trie.nodes})

Found(trie, segs) ==
  {[value |-> trie.value[SubSeq(segs, 1, n)], depth |-> n] : n \in MatchLongest(trie, segs)}

Resolve(location) ==
  LET segs == Split(location)
      services(i) == {s.value : s \in Found(i.value, After(segs, i.depth))}
  IN UNION {services(i) : i \in Found(interfaces, segs)}

(* build_service_trie_, service by service: empty once a path comes twice. *)
Building(interface, services) ==
  LET built[n \in 0 .. Len(services)] ==
        IF n = 0 THEN {NewTrie}
        ELSE {Insert(t, services[n], [interface |-> interface, service |-> services[n]]) :
                t \in {t \in built[n - 1] : ~TrieContains(t, services[n])}}
  IN built

BuildServiceTrie(interface, services) == Building(interface, services)[Len(services)]

-----------------------------------------------------------------------------
(* The inline routers. *)

(* match_route on the last k of the list: the first of them against the rest. *)
Matching(prefixes, path) ==
  LET match[k \in 0 .. Len(prefixes)] ==
        IF k = 0 THEN {}
        ELSE LET n == Len(prefixes) - k + 1
                 head == {[index |-> n, len |-> len] : len \in PathPrefixLen(prefixes[n], path)}
                 tail == match[k - 1]
             IN IF head # {} /\ \A h \in head, t \in tail : h.len >= t.len
                THEN head ELSE tail
  IN match

MatchList(prefixes, path) == Matching(prefixes, path)[Len(prefixes)]

(* match_service: the same rule for the services of an interface.           *)
MatchService(services, rest) == MatchList(services, rest)

InlineResolve(location) ==
  LET routeOf(r) == routes[r.index]
      serviceOf(r) ==
        UNION {{[interface |-> routeOf(r).interface, service |-> routeOf(r).services[s.index]] :
                  s \in MatchService(routeOf(r).services, rest)} :
               rest \in StripInterfacePrefix(routeOf(r).interface, location)}
      prefixes == [n \in 1 .. Len(routes) |-> routes[n].interface]
  IN UNION {serviceOf(r) : r \in MatchList(prefixes, location)}

-----------------------------------------------------------------------------
Init == interfaces = NewTrie /\ routes = << >> /\ asked = << >>

(* add_interface; an interface or a service already there is an error.      *)
InsertThenBuild(interface, services) ==
  LET built == BuildServiceTrie(interface, services)
      known == TrieContains(interfaces, interface)
      done == ~known /\ built # {}
  IN /\ interfaces' =
          IF known THEN interfaces
          ELSE Insert(interfaces, interface,
                      IF done THEN CHOOSE t \in built : TRUE ELSE NewTrie)
     /\ asked' = Append(asked, [interface |-> interface, services |-> services, done |-> done])

AddInterface(interface, services) ==
  LET built == IF TrieContains(interfaces, interface) THEN {}
               ELSE BuildServiceTrie(interface, services)
  IN /\ \/ built = {} /\ UNCHANGED interfaces
        \/ \E t \in built : interfaces' = Insert(interfaces, interface, t)
     /\ asked' = Append(asked, [interface |-> interface, services |-> services,
                                done |-> built # {}])

(* Router::call of an RpcRouter, with add_service for each of the services. *)
Call(interface, services) ==
  routes' = <<[interface |-> interface, services |-> Reverse(services)]>> \o routes

(* One assembly, on either kind of router. *)
Register(interface, services) ==
  AddInterface(interface, services) /\ Call(interface, services)

Next ==
  /\ Len(asked) < MaxInterfaces
  /\ \E i \in InterfaceTexts, n \in 1 .. MaxServices :
       \E services \in [1 .. n -> ServiceTexts] : Register(i, services)

Spec == Init /\ [][Next]_vars

-----------------------------------------------------------------------------
(* The reference: of the interfaces whose segments begin the location's,    *)
(* the longest; of its services, the longest that begin the rest.           *)
Reference(location) ==
  LET segs == Split(location)
      begins(text, from) == IsPrefix(Split(text), from)
      is == {n \in 1 .. Len(asked) : asked[n].done /\ begins(asked[n].interface, segs)}
      longest == {n \in is : \A m \in is :
                    Len(Split(asked[n].interface)) >= Len(Split(asked[m].interface))}
      hits(n) ==
        LET rest == After(segs, Len(Split(asked[n].interface)))
            ss == {s \in ToSet(asked[n].services) : begins(s, rest)}
        IN {[interface |-> asked[n].interface, service |-> s] :
              s \in {s \in ss : \A t \in ss : Len(Split(s)) >= Len(Split(t))}}
  IN UNION {hits(n) : n \in longest}

(* The trie router finds what the reference finds, and one thing only.      *)
ResolveIsLongestPrefix ==
  \A l \in Locations : Resolve(l) = Reference(l) /\ Cardinality(Resolve(l)) <= 1

Registrations ==
  [interface : InterfaceTexts, services : Seq(ServiceTexts), done : BOOLEAN]
Taken == {n \in 1 .. Len(asked) : asked[n].done}
PathOf(n) == Split(asked[n].interface)
Ways(path) == {SubSeq(path, 1, n) : n \in 0 .. Len(path)}

(* The trie holds the interfaces it took and nothing of those it refused:   *)
(* each path once however it was spelled, with the services it was          *)
(* registered with, and no node that does not lead to one of them.          *)
TrieHolds ==
  /\ asked \in Seq(Registrations)
  /\ \A m, n \in Taken : PathOf(m) = PathOf(n) => m = n
  /\ DOMAIN interfaces.value = {PathOf(n) : n \in Taken}
  /\ \A n \in Taken :
       interfaces.value[PathOf(n)] \in BuildServiceTrie(asked[n].interface, asked[n].services)
  /\ interfaces.nodes = {<< >>} \cup UNION {Ways(PathOf(n)) : n \in Taken}

(* A registration that is refused leaves every location where it was.       *)
RefusedChangesNothing ==
  [][~Last(asked').done => interfaces' = interfaces]_vars

(* Text and segments are the same question as long as no text has an empty  *)
(* segment inside it: a program may move from one router to the other.      *)
RoutersAgree ==
  (\A n \in 1 .. Len(asked) :
     asked[n].done /\ \A t \in {asked[n].interface} \cup ToSet(asked[n].services) : Canonical(t))
  => \A l \in Locations : Canonical(l) => InlineResolve(l) = Resolve(l)
=============================================================================

------------------------ MODULE MCObservationServer ------------------------
(* Browsers for the observation servers: a query with two options beside   *)
(* an image whose client may hang up; slow and impatient ones; two whose   *)
(* queries have no option, or an option without a value; and three of      *)
(* which one may hang up, so that descriptor numbers run out.              *)
EXTENDS ObservationServer

CONSTANTS page, image, query, post, bad, drop, flag

Get(path) == [method |-> "GET", path |-> path]
Query(parts, options) == Get([file |-> "PAGE", query |-> TRUE, parts |-> parts, options |-> options])

\* query: /index.html?led=On&x=y   drop: /index.html?   flag: /index.html?led=On&flag
MCRequest == [c \in Clients |->
    CASE c = page -> Get(Plain) [] c = image -> Get(NoQuery("BMP"))
      [] c = post -> [method |-> "POST", path |-> Plain] [] c = bad -> [method |-> "BAD", path |-> Plain]
      [] c = query -> Query(2, <<2, 2>>) [] c = drop -> Query(1, <<>>) [] c = flag -> Query(2, <<2, 1>>)]
MCScenes ==
    {[server |-> rpi7, callers |-> {query, image}, slow |-> {}, impatient |-> {image}],
     [server |-> rpi6, callers |-> {drop, image}, slow |-> {image}, impatient |-> {drop, image}],
     [server |-> withPi, callers |-> {drop, flag}, slow |-> {}, impatient |-> {}],
     [server |-> rpi7, callers |-> {post, image, bad}, slow |-> {}, impatient |-> {post}]}
MCPatientScenes == {[server |-> rpi7, callers |-> {page, image}, slow |-> {}, impatient |-> {}]}
=============================================================================

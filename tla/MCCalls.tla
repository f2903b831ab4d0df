------------------------------ MODULE MCCalls ------------------------------
(***************************************************************************)
(* Programs for CtxModule: main calls from sites a and b, f from c, g from *)
(* d.  A site calls one function, calls through a pointer, or creates a    *)
(* thread.                                                                 *)
(***************************************************************************)
EXTENDS CtxModule

AllFunctions == {"main", "f", "g", "ext", "malloc", "intrinsic", "pthread_create"}
Starts == {"f", "g", "ext"}
Sites == {"a", "b", "c", "d"}

CallTo(f) == [to |-> f, start |-> "none", holds |-> {}, fits |-> {}]
Thread(f) == [to |-> "pthread_create", start |-> f, holds |-> {}, fits |-> {}]
ThreadThrough(S) == [to |-> "pthread_create", start |-> "none", holds |-> S, fits |-> {}]
Through(S, fits) == [to |-> "none", start |-> "none", holds |-> S, fits |-> fits]
NoCall == Through({}, {})

AtA == <<CallTo("f"), Thread("f"), ThreadThrough({"f", "g", "malloc"})>>
AtB == <<CallTo("f"), CallTo("malloc"), CallTo("intrinsic"),
         Through({"f", "g", "malloc"}, {"f", "g"})>>
AtC == <<NoCall, CallTo("f"), CallTo("g"), Through({"g"}, {"g"})>>
AtD == <<NoCall, CallTo("f"), CallTo("ext"),
         Through({"malloc", "intrinsic"}, {"malloc", "intrinsic"})>>

(* Call strings of every site, of some sites, of none; a limit on the      *)
(* targets of a pointer; two call strings with the same hash.              *)
Options ==
  << [origins |-> Sites, limit |-> 3, clash |-> {}],
     [origins |-> Sites, limit |-> 1, clash |-> {}],
     [origins |-> {"a", "c"}, limit |-> 3, clash |-> {}],
     [origins |-> {}, limit |-> 3, clash |-> {}],
     [origins |-> Sites, limit |-> 3, clash |-> {<<"null", "a">>, <<"null", "b">>}] >>

Present(call, s) == IF call = NoCall THEN <<>> ELSE <<s>>

WithCalls(a, b, c, d, o) ==
  [call |-> [s \in Sites |-> CASE s = "a" -> a [] s = "b" -> b [] s = "c" -> c [] s = "d" -> d],
   body |-> [fn \in AllFunctions |->
               CASE fn = "main" -> <<"a", "b">>
                 [] fn = "f" -> Present(c, "c")
                 [] fn = "g" -> Present(d, "d")
                 [] OTHER -> <<>>],
   origins |-> o.origins, limit |-> o.limit, clash |-> o.clash]

(* The digits of a number choose the calls and the options.                *)
CallIds == 0 .. 959
CallPrograms ==
  [n \in CallIds |->
     WithCalls(AtA[1 + (n % 3)], AtB[1 + ((n \div 3) % 4)], AtC[1 + ((n \div 12) % 4)],
               AtD[1 + ((n \div 48) % 4)], Options[1 + (n \div 192)])]

(* A thread whose start routine is declared only.                          *)
ExternalIds == 0 .. 63
ExternalPrograms ==
  [n \in ExternalIds |->
     WithCalls(Thread("ext"), AtB[1 + (n % 4)], AtC[1 + ((n \div 4) % 4)], AtD[1 + (n \div 16)],
               Options[1])]
=============================================================================

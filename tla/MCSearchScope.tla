----------------------------- MODULE MCSearchScope ------------------------------
EXTENDS SearchScope, TLC

CONSTANTS t1, t2, t3

MCNames == t1 :> {"GET"} @@ t2 :> {} @@ t3 :> {"PUT"}
MCFocusLines == t1 :> {} @@ t2 :> {2} @@ t3 :> {}

MCSearchPlans ==
    {{[terms |-> "a", tasks |-> {t1, t3}], [terms |-> "b", tasks |-> {t2}]},
     {[terms |-> "a", tasks |-> {t1}], [terms |-> "a", tasks |-> {t2}],
      [terms |-> "b", tasks |-> {t3}]},
     {[terms |-> "a", tasks |-> {t1, t2}]}}

Fun(a, b) == [name |-> "f", kind |-> "symbol", first |-> a, last |-> b]
Route(name, a, b) == [name |-> name, kind |-> "route", first |-> a, last |-> b]
Register(a, b, lines) == [first |-> a, last |-> b, refers |-> lines]

MCSource(symbols, calls, more, hidden, wide) ==
    [length |-> 8, symbols |-> symbols, calls |-> calls,
     more |-> ("GET" :> more @@ "PUT" :> <<>>),
     admitted |-> (Range(symbols) \cup calls) \ hidden, wide |-> wide]

(* A route within a function and a call beside it; two routes of one name;   *)
(* nested calls, and a symbol without an end; a route with a line that is    *)
(* too wide; a function too long for a batch.                                *)
MCSources ==
    {MCSource(<<Fun(2, 4), Fun(6, 8), Route("GET", 3, 4)>>, {Register(6, 6, <<1>>)}, <<1>>, {}, {}),
     MCSource(<<Route("GET", 1, 2), Route("GET", 2, 4), Route("PUT", 5, 5)>>,
              {Register(7, 7, <<3, 3>>)}, <<>>, {Route("PUT", 5, 5)}, {}),
     MCSource(<<Fun(5, 0)>>, {Register(1, 4, <<1>>), Register(2, 3, <<1>>), Register(7, 7, <<>>)},
              <<>>, {Register(2, 3, <<1>>)}, {}),
     MCSource(<<Route("GET", 2, 6)>>, {}, <<>>, {}, {4}),
     MCSource(<<Fun(1, 8), Route("PUT", 2, 5)>>, {}, <<>>, {}, {})}

================================================================================

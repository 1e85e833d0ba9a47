---------------------------- MODULE MCArithSpeed ----------------------------
(* A small instance of ArithSpeed: 4 operations in a kernel for 100 and 2  *)
(* for 10.                                                                 *)
EXTENDS ArithSpeed

Plain == [functions |-> <<"vec">>, sizes |-> <<4>>, checks |-> TRUE,
          double |-> FALSE, repeats |-> 1, maxVec |-> 1, local |-> 0,
          groups |-> 0]

MCRequests ==
    {[Plain EXCEPT !.sizes = <<4, 5>>, !.repeats = 2, !.double = TRUE],
     [Plain EXCEPT !.functions = <<"vliw">>, !.sizes = <<8>>, !.maxVec = 8],
     [Plain EXCEPT !.functions = <<"add", "sub">>, !.sizes = <<12, 14>>],
     [Plain EXCEPT !.functions = <<"foo", "sqr">>, !.maxVec = 2],
     [Plain EXCEPT !.functions = <<"add">>, !.double = TRUE, !.maxVec = 32],
     [Plain EXCEPT !.functions = <<"mul">>, !.double = TRUE],
     [Plain EXCEPT !.functions = <<"exp">>, !.sizes = <<3>>, !.double = TRUE],
     [Plain EXCEPT !.maxVec = 64],
     [Plain EXCEPT !.functions = <<"vliw">>, !.maxVec = 128],
     [Plain EXCEPT !.local = 7, !.groups = 5, !.maxVec = 16],
     [Plain EXCEPT !.local = 1, !.groups = 70, !.maxVec = 8],
     [Plain EXCEPT !.sizes = <<16, 18, 20>>],
     [Plain EXCEPT !.sizes = <<11, 20, 10>>, !.checks = FALSE]}

MCMachines ==
    LET a == [items |-> 4, units |-> 2, memory |-> 2100]
        b == [items |-> 8, units |-> 1, memory |-> 4000]
    IN  {<<a>>, <<a, b>>}
=============================================================================

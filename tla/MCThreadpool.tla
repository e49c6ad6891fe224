----------------------------- MODULE MCThreadpool -----------------------------
(* Threadpool for TLC: a product with more chunks than threads and one cut   *)
(* by thread, with a view and an element-wise node between and after them.   *)
EXTENDS Threadpool

Product(n) == [op |-> "mul_mat", raw |-> n]
Rows == [op |-> "rows", raw |-> 0]
View == [op |-> "none", raw |-> 0]

MCGraphs == {<<Product(3), View, Product(1)>>, <<Rows>>}
=============================================================================

------------------------------ MODULE Sorting ------------------------------
(***************************************************************************)
(* std::sort, as the compiler and the schema inference use it.             *)
(***************************************************************************)
EXTENDS Integers, Sequences, Functions

\* The orders in which the elements of s can be put.
Orders(s) == {[i \in DOMAIN s |-> s[p[i]]] : p \in {q \in [DOMAIN s -> DOMAIN s] : IsInjective(q)}}

\* The elements of s by their keys; those of the same key are in an order that
\* the sort chooses.
SortedBy(s, key) == CHOOSE t \in Orders(s) : \A i, j \in DOMAIN t : i < j => key[t[i]] <= key[t[j]]
=============================================================================

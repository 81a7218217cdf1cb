---- MODULE PythonNone ----
(* The value that stands for Python's None in every module.                  *)

CONSTANT None
====

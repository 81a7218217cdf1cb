---- MODULE MCJobForm ----
(* Instances of JobForm for TLC: generated pages and fault budgets.          *)
EXTENDS JobForm

CONSTANTS particles, release

Parameter(name, numeric) == [name |-> name, numeric |-> numeric]

\* Pages without parameters, with a number and a text, with two parameters of
\* one name, and with a parameter that has the e-mail field's name.
Pages == {<< >>,
          <<Parameter(particles, TRUE), Parameter(release, FALSE)>>,
          <<Parameter(release, FALSE), Parameter(release, TRUE)>>,
          <<Parameter(user_email, TRUE)>>}


\* One handler stops, and the SDK repeats one send.
OneStop == [k \in FaultKinds |-> IF k \in {"abort", "resend"} THEN 1 ELSE 0]
====

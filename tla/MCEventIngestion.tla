--------------------------- MODULE MCEventIngestion ---------------------------
(* Ingestion on small sets: an email and a phone number, in that order of  *)
(* priority; requests, keys and customer ids are interchangeable.          *)
EXTENDS EventIngestion

CONSTANTS email, phone

MCHints == {<<>>, <<email>>, <<phone>>, <<email, phone>>}

MCSymmetry == Permutations(Requests) \cup Permutations(Keys)
                 \cup Permutations(CustomerIds)
===============================================================================

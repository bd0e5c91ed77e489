------------------------------- MODULE MCIoMmu -------------------------------
(* Instance of IoMmu: four pages to allocate, the last one above 4GB, and  *)
(* one page of each driver.                                                *)
EXTENDS IoMmu

MCHostPage == [c \in Context |-> IF c = "main" THEN 4 ELSE 5]
=============================================================================

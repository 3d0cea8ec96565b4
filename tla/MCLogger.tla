------------------------------ MODULE MCLogger ------------------------------
(* The streams of the logger in example/example_logger.cpp.                *)
EXTENDS Logger

ConsoleAndFile == <<"console", "file">>
=============================================================================

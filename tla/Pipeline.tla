------------------------------ MODULE Pipeline ------------------------------
(***************************************************************************)
(* What the compiler promises whoever runs it: the stages are entered in   *)
(* order, none is entered after one that failed, a result is given once,   *)
(* and success only after the stages that were asked for.                  *)
(***************************************************************************)
CONSTANT Last       \* the stages after which the compilation may succeed

VARIABLES stage, result

pipelineVars == <<stage, result>>

Order == {<<"UNKNOWN", "FILE">>, <<"FILE", "LEXER">>, <<"LEXER", "PARSER">>,
          <<"PARSER", "LOGGER">>}

PipelineInit == stage = "UNKNOWN" /\ result = "open"

EnterStage == /\ result = "open"
              /\ <<stage, stage'>> \in Order
              /\ UNCHANGED result

Succeed == /\ result = "open"
           /\ stage \in Last
           /\ result' = "success"
           /\ UNCHANGED stage

(* A failure in the stage at hand, or an end without a result.             *)
Fail == /\ result = "open"
        /\ stage # "UNKNOWN"
        /\ result' \in {"failure", "died"}
        /\ UNCHANGED stage

(* The version was asked for, instead of a compilation.                    *)
ShowVersion == /\ result = "open"
               /\ stage = "UNKNOWN"
               /\ result' = "version"
               /\ UNCHANGED stage

PipelineNext == EnterStage \/ Succeed \/ Fail \/ ShowVersion

PipelineSpec == PipelineInit /\ [][PipelineNext]_pipelineVars
=============================================================================

------------------------------ MODULE MCStartup ------------------------------
(* Two inverters and a broker connection that is lost twice.               *)
EXTENDS Startup

MCSetups == {{}, {"datalog", "mqtt", "influx"}}
==============================================================================

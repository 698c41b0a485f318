---------------------------- MODULE NightDefence ----------------------------
(***************************************************************************)
(* The components that defend a night side by side: the forecast, the      *)
(* search with its scenarios, the simulation it runs, the rays weapons     *)
(* fire along and the validator of what is sent.  They keep no state in    *)
(* common, so in each behaviour one of them moves, the one in focus, and   *)
(* the others stay as they begin.                                          *)
(***************************************************************************)
EXTENDS NightForecast, DecisionValidator, Rays, NightSimulation, NightSearch

VARIABLE focus

\* Where a component that stays may begin in more than one way, it begins in one.
Init ==
    /\ focus \in {"forecast", "search", "simulation", "rays", "validator"}
    /\ ForecastInit
    /\ focus # "forecast" => full = (TRUE \in FullSettings)
    /\ ValidatorInit
    /\ focus # "validator" => board = CHOOSE b \in Boards : TRUE
    /\ RayInit
    /\ focus # "rays" => muzzle = <<0, 0>> /\ aim = <<0, 0>>
    /\ SimInit
    /\ focus # "simulation" => policy = (CHOOSE p \in Policies : TRUE) /\ night = (CHOOSE n \in Nights : TRUE)
    /\ SearchInit

Next ==
    /\ UNCHANGED focus
    /\ \/ focus = "forecast" /\ ForecastNext
          /\ UNCHANGED <<searchVars, simVars, rayVars, validatorVars>>
       \/ focus = "search" /\ SearchNext
          /\ UNCHANGED <<forecastVars, simVars, rayVars, validatorVars>>
       \/ focus = "simulation" /\ SimNext
          /\ UNCHANGED <<forecastVars, searchVars, rayVars, validatorVars>>
       \/ focus = "rays" /\ RayNext
          /\ UNCHANGED <<forecastVars, searchVars, simVars, validatorVars>>
       \/ focus = "validator" /\ ValidatorNext
          /\ UNCHANGED <<forecastVars, searchVars, simVars, rayVars>>

Spec == Init /\ [][Next]_<<focus, forecastVars, searchVars, simVars, rayVars, validatorVars>>

\* The type invariants of the five components.
NightTypeOK == ForecastTypeOK /\ ValidatorTypeOK /\ RayTypeOK /\ SimTypeOK /\ SearchTypeOK

=============================================================================

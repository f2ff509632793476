\* The main task against one request thread, which runs scripts, starts the HTTP
\* server and reloads the catalog; the data service starts by itself.
CONSTANTS
  r1 = r1
  Main = Main
  Requests = {r1}
  Services = {"dataStore", "rpc"}
  AutoStart = {"dataStore"}
  None = None
SPECIFICATION Spec
CONSTRAINT Bound
INVARIANTS TypeOK StatesAgree HandlersMatch NoHandlerWithoutDatabase PausedIsOwed ServicesStop

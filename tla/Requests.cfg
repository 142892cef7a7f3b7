SPECIFICATION Spec
CONSTANTS
  Slots <- MCSlots
  Deployment <- NoDeployment
  Updates <- MCUpdates
  Underlying <- MCUnderlying
  SystemFilters <- MCSystemFilters
  WorkflowFilters <- MCWorkflowFilters
  Viewers <- MCViewers
  Landscapes <- MCLandscapes
  BaseLand <- MCBaseLand
  WorkflowBodies <- MCWorkflowBodies
  SharedBodies <- MCSharedBodies
INVARIANTS SettingsValid RefusedIsClientError ListedSatisfy VisibleOnly CheckForetells
